---- MODULE Spec2Model ----
(***************************************************************************)
(* Type resolution of the SQL Server target connector                      *)
(* (target_sqlserver/connector.py): the JSON-schema to SQL type mapper     *)
(* (to_sql_type, pick_individual_type) and the type merger                 *)
(* (pick_best_sql_type, select_nvarchar_size).                             *)
(*                                                                         *)
(* A connector is constructed with a configuration; afterwards a caller    *)
(* invokes one operation at a time.  Every call records its arguments and  *)
(* its outcome (a returned value, None, or a raised exception).            *)
(***************************************************************************)
EXTENDS Integers, Sequences, FiniteSets, TLC

VARIABLES
    config,          \* value of config["interpret_content_encoding"]
    pc,              \* "idle": no call in progress; "done": a call has returned
    op,              \* the operation last called
    arg_schema,      \* its jsonschema_type argument
    arg_types,       \* its sql_type_array argument
    is_primary_key,  \* its is_primary_key argument
    result,          \* its outcome
    allow_column_add,    \* connector policy: ADD COLUMN is supported
    allow_column_alter,  \* connector policy: altering column types is supported
    tables,          \* the database: for each table name, whether it exists and its columns
    before,          \* the database as it was when the last call began
    committed,       \* the database as the caller's last commit left it
    ddl,             \* the DDL statements the last call executed on the connection
    column_calls,    \* the columns prepare_column was invoked for by the last call
    message,         \* what the last raised error's message names
    arg_table,       \* the arguments of the last table operation
    ncalls,          \* how many table operations have been called
    target,          \* the target: whether it was constructed, and its settings
    rows,            \* the rows of the stream's table, by key
    prior_rows,      \* the rows as they were before the last message
    marker,          \* the version of the last ACTIVATE_VERSION message applied
    prior_marker,    \* the marker as it was before the last message
    now,             \* the clock deletion timestamps are taken from
    processed,       \* how many messages the target has processed
    value,           \* the value last bound to a binary-from-hex column
    bound            \* what binding it gave

mapper_vars == <<config, pc, op, arg_schema, arg_types, is_primary_key, result>>

table_vars ==
    <<allow_column_add, allow_column_alter, tables, before, committed, ddl,
      column_calls, message, arg_table, ncalls>>

bind_vars == <<value, bound>>

sink_vars ==
    <<target, rows, prior_rows, marker, prior_marker, now, processed, bind_vars>>

vars == <<mapper_vars, table_vars, sink_vars>>

(***************************************************************************)
(* Bounds of the model.                                                    *)
(***************************************************************************)
MaxCalls == 2       \* most table operations in one behaviour
MaxVersion == 2     \* highest stream version
MaxMessages == 4    \* most messages one target processes
MaxTypeList == 2    \* longest "type" list of a schema
MaxAnyOf == 3       \* most alternatives of an "anyOf"
MaxHexLen == 4      \* longest string bound to a binary-from-hex column

MaxSqlTypes == 3    \* longest sql_type_array handed to the merger directly

(***************************************************************************)
(* SQL types.  An instance is its class and its length; LengthNone is the  *)
(* length of a type built without one (NVARCHAR()).                        *)
(***************************************************************************)
LengthNone == 0
PrimaryKeyLength == 450
NullVersion == 0    \* a row without version metadata
NullTime == 0       \* a row without a deletion timestamp

SqlType(cls, length) == [cls |-> cls, length |-> length]

HexByteString == SqlType("HexByteString", LengthNone)
JSON == SqlType("JSON", LengthNone)
UNIQUEIDENTIFIER == SqlType("UNIQUEIDENTIFIER", LengthNone)
NVARCHAR(length) == SqlType("NVARCHAR", length)
DATETIME == SqlType("DATETIME", LengthNone)
DATE == SqlType("DATE", LengthNone)
TIME == SqlType("TIME", LengthNone)
DECIMAL == SqlType("DECIMAL", LengthNone)
BIGINT == SqlType("BIGINT", LengthNone)
INTEGER == SqlType("INTEGER", LengthNone)
BIT == SqlType("BIT", LengthNone)
NOTYPE == SqlType("NOTYPE", LengthNone)
\* sqlalchemy.types.VARCHAR and BOOLEAN: what the SDK's baseline mapping
\* returns for strings and booleans; neither is in the precedence list.
VARCHAR == SqlType("VARCHAR", LengthNone)
SA_BOOLEAN == SqlType("BOOLEAN", LengthNone)

\* isinstance(obj, sql_type).  Every class above is a leaf of sqlalchemy's
\* hierarchy (BIGINT and INTEGER are siblings under Integer, NVARCHAR and
\* VARCHAR siblings under String, BIT and BOOLEAN siblings under Boolean,
\* NOTYPE and HexByteString are TypeDecorators), so an instance is an
\* instance of exactly its own class among them.
isinstance(obj, sql_type) == obj.cls = sql_type

(***************************************************************************)
(* Outcomes of a call.                                                     *)
(***************************************************************************)
Returned(t) == [kind |-> "ok", type |-> t, exc |-> "-"]
ReturnedNone == [kind |-> "none", type |-> SqlType("-", LengthNone), exc |-> "-"]
Raised(e) == [kind |-> "error", type |-> SqlType("-", LengthNone), exc |-> e]

(***************************************************************************)
(* JSON-schema values.  A "type" tag is a string, a list of strings, or    *)
(* something else; Absent marks a missing key.                             *)
(***************************************************************************)
Absent == "<absent>"

TagAbsent == [k |-> "absent", v |-> <<>>]   \* no "type" key
TagStr(s) == [k |-> "str", v |-> <<s>>]      \* "type": "integer"
TagList(l) == [k |-> "list", v |-> l]        \* "type": ["integer", "null"]
TagNone == [k |-> "none", v |-> <<>>]       \* "type": null
TagNumber == [k |-> "num", v |-> <<>>]      \* "type": 5
TagEmptyDict == [k |-> "dict", v |-> <<>>]  \* "type": {}

Schema(tag, format, encoding, anyOf) ==
    [type |-> tag, format |-> format, contentEncoding |-> encoding, anyOf |-> anyOf]

EmptySchema == Schema(TagAbsent, Absent, Absent, <<>>)

\* Python truthiness of jsonschema_type.get("type", False)
truthy(tag) ==
    CASE tag.k = "absent" -> FALSE
      [] tag.k = "str" -> tag.v[1] # ""
      [] tag.k = "list" -> tag.v # <<>>
      [] tag.k = "none" -> FALSE
      [] tag.k = "num" -> TRUE
      [] tag.k = "dict" -> FALSE

\* `name in jsonschema_type["type"]` for a tag the operator accepts: list
\* membership, substring of a string (none of the type names used here is
\* a substring of another, and "" contains none of them), key of a dict.
contains(tag, name) ==
    CASE tag.k = "str" -> tag.v[1] = name
      [] tag.k = "list" -> \E i \in 1..Len(tag.v) : tag.v[i] = name
      [] OTHER -> FALSE

(***************************************************************************)
(* interpret_content_encoding (cached property): config.get(..., False)    *)
(***************************************************************************)
interpret_content_encoding == IF config = Absent THEN FALSE ELSE config = "true"

(***************************************************************************)
(* select_nvarchar_size                                                    *)
(***************************************************************************)
select_nvarchar_size_inverted(pk) ==
    IF pk THEN NVARCHAR(LengthNone) ELSE NVARCHAR(PrimaryKeyLength)

select_nvarchar_size(pk) ==
    IF pk THEN NVARCHAR(PrimaryKeyLength) ELSE NVARCHAR(LengthNone)

(***************************************************************************)
(* pick_best_sql_type                                                      *)
(***************************************************************************)
precedence_order_swapped ==
    << "HexByteString", "NVARCHAR", "UNIQUEIDENTIFIER", "JSON", "DATETIME", "DATE",
       "TIME", "DECIMAL", "BIGINT", "INTEGER", "BIT", "NOTYPE" >>

precedence_order ==
    << "HexByteString", "JSON", "UNIQUEIDENTIFIER", "NVARCHAR", "DATETIME", "DATE",
       "TIME", "DECIMAL", "BIGINT", "INTEGER", "BIT", "NOTYPE" >>

\* the pairs (index in precedence_order, index in sql_type_array) at which
\* isinstance(obj, sql_type) holds
matches(sql_type_array) ==
    { h \in (1..Len(precedence_order)) \X (1..Len(sql_type_array)) :
        isinstance(sql_type_array[h[2]], precedence_order[h[1]]) }

\* itertools.product(array, precedence): the array is the outer loop
pick_best_sql_type_array_first(sql_type_array, pk) ==
    LET hits == matches(sql_type_array)
    IN  IF hits = {} THEN select_nvarchar_size(pk)
        ELSE LET first == CHOOSE h \in hits : \A g \in hits :
                              h[2] < g[2] \/ (h[2] = g[2] /\ h[1] <= g[1])
             IN  sql_type_array[first[2]]

\* no match falls back to NOTYPE
pick_best_sql_type_notype(sql_type_array, pk) ==
    LET hits == matches(sql_type_array)
    IN  IF hits = {} THEN NOTYPE
        ELSE LET first == CHOOSE h \in hits : \A g \in hits :
                              h[1] < g[1] \/ (h[1] = g[1] /\ h[2] <= g[2])
             IN  sql_type_array[first[2]]

\* itertools.product(precedence_order, sql_type_array) enumerates the
\* precedence list in the outer loop and the array in the inner loop; the
\* first pair that matches returns the array's element.
pick_best_sql_type(sql_type_array, pk) ==
    LET hits == matches(sql_type_array)
    IN  IF hits = {} THEN select_nvarchar_size(pk)
        ELSE LET first == CHOOSE h \in hits : \A g \in hits :
                              h[1] < g[1] \/ (h[1] = g[1] /\ h[2] <= g[2])
             IN  sql_type_array[first[2]]

(***************************************************************************)
(* singer_sdk.typing.to_sql_type, the baseline mapping that                *)
(* pick_individual_type delegates to: a string gives DATETIME, TIME or     *)
(* DATE by its format and VARCHAR otherwise, an integer INTEGER, a number  *)
(* DECIMAL, a boolean BOOLEAN, anything else VARCHAR.  Its type test is    *)
(* equality with a string tag or membership in a list tag.                 *)
(***************************************************************************)
jsonschema_type_check(tag, name) ==
    \/ tag.k = "str" /\ tag.v[1] = name
    \/ tag.k = "list" /\ \E i \in 1..Len(tag.v) : tag.v[i] = name

th_to_sql_type(jsonschema_type) ==
    LET tag == jsonschema_type.type
    IN  IF jsonschema_type_check(tag, "string")
        THEN CASE jsonschema_type.format = "date-time" -> DATETIME
               [] jsonschema_type.format = "time" -> TIME
               [] jsonschema_type.format = "date" -> DATE
               [] OTHER -> VARCHAR
        ELSE IF jsonschema_type_check(tag, "integer") THEN INTEGER
        ELSE IF jsonschema_type_check(tag, "number") THEN DECIMAL
        ELSE IF jsonschema_type_check(tag, "boolean") THEN SA_BOOLEAN
        ELSE VARCHAR

(***************************************************************************)
(* pick_individual_type                                                    *)
(***************************************************************************)
\* the format rules tried before the integer, object and array rules
pick_individual_type_format_first(jsonschema_type, pk) ==
    LET tag == jsonschema_type.type
    IN  IF tag.k = "absent" THEN Raised("KeyError")
        ELSE IF tag.k \in {"none", "num"} THEN Raised("TypeError")
        ELSE IF contains(tag, "null") THEN ReturnedNone
        ELSE IF jsonschema_type.format = "date-time" THEN Returned(DATETIME)
        ELSE IF jsonschema_type.format = "uuid" THEN Returned(UNIQUEIDENTIFIER)
        ELSE IF contains(tag, "integer") THEN Returned(BIGINT)
        ELSE IF contains(tag, "object") THEN Returned(JSON)
        ELSE IF contains(tag, "array") THEN Returned(JSON)
        ELSE IF interpret_content_encoding /\ jsonschema_type.contentEncoding = "base16"
        THEN Returned(HexByteString)
        ELSE LET individual_type == th_to_sql_type(jsonschema_type)
             IN  IF isinstance(individual_type, "NVARCHAR")
                 THEN Returned(select_nvarchar_size(pk))
                 ELSE Returned(individual_type)

\* contentEncoding interpreted whatever the configuration says
pick_individual_type_always_interpret(jsonschema_type, pk) ==
    LET tag == jsonschema_type.type
    IN  IF tag.k = "absent" THEN Raised("KeyError")
        ELSE IF tag.k \in {"none", "num"} THEN Raised("TypeError")
        ELSE IF contains(tag, "null") THEN ReturnedNone
        ELSE IF contains(tag, "integer") THEN Returned(BIGINT)
        ELSE IF contains(tag, "object") THEN Returned(JSON)
        ELSE IF contains(tag, "array") THEN Returned(JSON)
        ELSE IF jsonschema_type.format = "date-time" THEN Returned(DATETIME)
        ELSE IF jsonschema_type.format = "uuid" THEN Returned(UNIQUEIDENTIFIER)
        ELSE IF jsonschema_type.contentEncoding = "base16"
        THEN Returned(HexByteString)
        ELSE LET individual_type == th_to_sql_type(jsonschema_type)
             IN  IF isinstance(individual_type, "NVARCHAR")
                 THEN Returned(select_nvarchar_size(pk))
                 ELSE Returned(individual_type)

\* jsonschema_type["type"] raises KeyError when the key is missing, and
\* `"null" in jsonschema_type["type"]` raises TypeError when the tag is None
\* or a number.
pick_individual_type(jsonschema_type, pk) ==
    LET tag == jsonschema_type.type
    IN  IF tag.k = "absent" THEN Raised("KeyError")
        ELSE IF tag.k \in {"none", "num"} THEN Raised("TypeError")
        ELSE IF contains(tag, "null") THEN ReturnedNone
        ELSE IF contains(tag, "integer") THEN Returned(BIGINT)
        ELSE IF contains(tag, "object") THEN Returned(JSON)
        ELSE IF contains(tag, "array") THEN Returned(JSON)
        ELSE IF jsonschema_type.format = "date-time" THEN Returned(DATETIME)
        ELSE IF jsonschema_type.format = "uuid" THEN Returned(UNIQUEIDENTIFIER)
        ELSE IF interpret_content_encoding /\ jsonschema_type.contentEncoding = "base16"
        THEN Returned(HexByteString)
        ELSE LET individual_type == th_to_sql_type(jsonschema_type)
             IN  IF isinstance(individual_type, "NVARCHAR")
                 THEN Returned(select_nvarchar_size(pk))
                 ELSE Returned(individual_type)

(***************************************************************************)
(* to_sql_type                                                             *)
(***************************************************************************)
\* json_type_array built from a "type" list: one dict per entry, carrying
\* the schema's format and contentEncoding when they are set
type_list_entries(jsonschema_type) ==
    [ i \in 1..Len(jsonschema_type.type.v) |->
        Schema(TagStr(jsonschema_type.type.v[i]), jsonschema_type.format,
               jsonschema_type.contentEncoding, <<>>) ]

\* the loop over json_type_array: the first alternative that raises ends
\* the call, a None is dropped, a picked type is appended
RECURSIVE picked_types(_, _, _)
picked_types(json_type_array, pk, sql_type_array) ==
    IF json_type_array = <<>> THEN [kind |-> "ok", types |-> sql_type_array, exc |-> "-"]
    ELSE LET picked_type == pick_individual_type(Head(json_type_array), pk)
         IN  CASE picked_type.kind = "error" ->
                    [kind |-> "error", types |-> <<>>, exc |-> picked_type.exc]
               [] picked_type.kind = "none" ->
                    picked_types(Tail(json_type_array), pk, sql_type_array)
               [] OTHER ->
                    picked_types(Tail(json_type_array), pk,
                                 Append(sql_type_array, picked_type.type))

merge_picked(json_type_array, pk) ==
    LET picked == picked_types(json_type_array, pk, <<>>)
    IN  IF picked.kind = "error" THEN Raised(picked.exc)
        ELSE Returned(pick_best_sql_type(picked.types, pk))

\* an empty sql_type_array is answered with NOTYPE instead of being merged
to_sql_type_empty_notype(jsonschema_type, pk) ==
    LET tag == jsonschema_type.type
        json_type_array ==
            IF tag.k = "str" THEN <<jsonschema_type>>
            ELSE IF tag.k = "list" THEN type_list_entries(jsonschema_type)
            ELSE jsonschema_type.anyOf
        picked == picked_types(json_type_array, pk, <<>>)
    IN  IF truthy(tag) /\ tag.k \notin {"str", "list"} THEN Raised("RuntimeError")
        ELSE IF ~truthy(tag) /\ jsonschema_type.anyOf = <<>> THEN Returned(NOTYPE)
        ELSE IF picked.kind = "error" THEN Raised(picked.exc)
        ELSE IF picked.types = <<>> THEN Returned(NOTYPE)
        ELSE Returned(pick_best_sql_type(picked.types, pk))

\* a tag that is neither str nor list is passed over without an error
to_sql_type_lenient(jsonschema_type, pk) ==
    LET tag == jsonschema_type.type
    IN  IF truthy(tag)
        THEN IF tag.k = "str" THEN merge_picked(<<jsonschema_type>>, pk)
             ELSE IF tag.k = "list" THEN merge_picked(type_list_entries(jsonschema_type), pk)
             ELSE Returned(NOTYPE)
        ELSE IF jsonschema_type.anyOf # <<>> THEN merge_picked(jsonschema_type.anyOf, pk)
        ELSE Returned(NOTYPE)

\* "Defaulting to string": neither type nor anyOf gives the sized NVARCHAR
to_sql_type_default_string(jsonschema_type, pk) ==
    LET tag == jsonschema_type.type
    IN  IF truthy(tag)
        THEN IF tag.k = "str" THEN merge_picked(<<jsonschema_type>>, pk)
             ELSE IF tag.k = "list" THEN merge_picked(type_list_entries(jsonschema_type), pk)
             ELSE Raised("RuntimeError")
        ELSE IF jsonschema_type.anyOf # <<>> THEN merge_picked(jsonschema_type.anyOf, pk)
        ELSE Returned(select_nvarchar_size(pk))

to_sql_type(jsonschema_type, pk) ==
    LET tag == jsonschema_type.type
    IN  IF truthy(tag)
        THEN IF tag.k = "str" THEN merge_picked(<<jsonschema_type>>, pk)
             ELSE IF tag.k = "list" THEN merge_picked(type_list_entries(jsonschema_type), pk)
             ELSE Raised("RuntimeError")
        ELSE IF jsonschema_type.anyOf # <<>> THEN merge_picked(jsonschema_type.anyOf, pk)
        ELSE Returned(NOTYPE)

(***************************************************************************)
(* The inputs callers draw from.                                           *)
(***************************************************************************)
SeqsUpTo(S, n) == UNION { [1..m -> S] : m \in 0..n }

TypeNames == {"null", "integer", "string", "object", "array", "number", "boolean"}
Formats == {Absent, "date-time", "uuid", "date", "time"}
Encodings == {Absent, "base16"}

Tags ==
    {TagAbsent, TagNone, TagNumber, TagEmptyDict, TagStr("")}
    \cup { TagStr(s) : s \in TypeNames }
    \cup { TagList(l) : l \in SeqsUpTo(TypeNames, MaxTypeList) }

\* schemas without anyOf: every tag, format and contentEncoding
TaggedSchemas ==
    { Schema(tag, f, e, <<>>) : tag \in Tags, f \in Formats, e \in Encodings }

\* alternatives of an anyOf
AlternativeTags ==
    {TagAbsent, TagNone, TagNumber, TagEmptyDict, TagList(<<"string", "null">>)}
    \cup { TagStr(s) : s \in {"null", "integer", "string", "object"} }

Alternatives ==
    { Schema(tag, f, Absent, <<>>) : tag \in AlternativeTags, f \in {Absent, "date-time"} }

UnionSchemas ==
    { Schema(TagAbsent, Absent, Absent, alts) :
        alts \in SeqsUpTo(Alternatives, MaxAnyOf) \ {<<>>} }

JsonSchemas == TaggedSchemas \cup UnionSchemas

SqlTypes ==
    { HexByteString, JSON, UNIQUEIDENTIFIER, NVARCHAR(LengthNone),
      NVARCHAR(PrimaryKeyLength), DATETIME, DATE, TIME, DECIMAL, BIGINT, INTEGER,
      BIT, NOTYPE, VARCHAR, SA_BOOLEAN }

SqlTypeArrays == SeqsUpTo(SqlTypes, MaxSqlTypes)

(***************************************************************************)
(* The database the connector manages, as its DDL operations see it.       *)
(***************************************************************************)
TableNames == {"t", "#t"}

NoCollation == ""
DatabaseCollation == "SQL_Latin1_General_CP1_CI_AS"

VARBINARY == SqlType("VARBINARY", LengthNone)

NoTable == [exists |-> FALSE, columns |-> <<>>]
ExistingTable(columns) == [exists |-> TRUE, columns |-> columns]

\* sa.Column(name, type, primary_key=..., autoincrement=False): a column is
\* nullable unless it is part of the primary key
Column(name, type, primary_key) ==
    [name |-> name, type |-> type, collation |-> NoCollation,
     primary_key |-> primary_key, autoincrement |-> FALSE,
     nullable |-> ~primary_key]

\* column_object=None: no column was found
None == Column("", SqlType("-", LengthNone), FALSE)

Statement(stmt, table, columns) ==
    [stmt |-> stmt, table |-> table, columns |-> columns]

\* str(sql_type): a decorated type renders as the type it is implemented by
type_str(sql_type) ==
    CASE sql_type.cls = "NOTYPE" -> SqlType("NVARCHAR", sql_type.length)
      [] sql_type.cls = "HexByteString" -> VARBINARY
      [] OTHER -> sql_type

has_collation(sql_type) == sql_type.cls \in {"NVARCHAR", "VARCHAR"}

\* the type and collation the inspector reports for a column declared with
\* sql_type: the server stores JSON as unicode text and booleans as bits
reflected(column) ==
    LET rendered == type_str(column.type)
        stored == CASE rendered.cls = "JSON" -> NVARCHAR(LengthNone)
                    [] rendered.cls = "BOOLEAN" -> BIT
                    [] OTHER -> rendered
    IN [column EXCEPT
           !.type = stored,
           !.collation = IF ~has_collation(stored) THEN NoCollation
                         ELSE IF column.collation # NoCollation THEN column.collation
                         ELSE DatabaseCollation]

index_of(columns, name) ==
    IF \E i \in 1..Len(columns) : columns[i].name = name
    THEN CHOOSE i \in 1..Len(columns) : columns[i].name = name
    ELSE 0

\* the name as the database collation compares it: the collation is
\* case-insensitive, and "ID" is the one name of the model with capitals
UpperName == "ID"
casefold(name) == IF name = UpperName THEN "id" ELSE name

\* the server holds a column of that name
has_column(columns, name) ==
    \E i \in 1..Len(columns) : casefold(columns[i].name) = casefold(name)

\* the names of a column list are distinct for the server
distinct_names(columns) ==
    \A i, j \in 1..Len(columns) :
        i # j => casefold(columns[i].name) # casefold(columns[j].name)

\* connection.execute(statement): the server applies a statement or rejects it
accepts(tbls, statement) ==
    CASE statement.stmt = "CREATE" ->
            /\ ~tbls[statement.table].exists
            /\ statement.columns # <<>>
            /\ distinct_names(statement.columns)
            /\ \A i \in 1..Len(statement.columns) :
                  statement.columns[i].primary_key =>
                      reflected(statement.columns[i]).type # NVARCHAR(LengthNone)
      [] statement.stmt = "ADD" ->
            /\ tbls[statement.table].exists
            /\ ~has_column(tbls[statement.table].columns, statement.columns[1].name)
      [] statement.stmt = "ALTER" ->
            /\ tbls[statement.table].exists
            /\ index_of(tbls[statement.table].columns, statement.columns[1].name) # 0

applied(tbls, statement) ==
    LET old == tbls[statement.table].columns
        changed == statement.columns[1]
    IN CASE statement.stmt = "CREATE" ->
                [tbls EXCEPT ![statement.table] =
                    ExistingTable([i \in 1..Len(statement.columns) |->
                                      reflected(statement.columns[i])])]
         [] statement.stmt = "ADD" ->
                [tbls EXCEPT ![statement.table] =
                    ExistingTable(Append(old, reflected(changed)))]
         [] statement.stmt = "ALTER" ->
                [tbls EXCEPT ![statement.table] =
                    ExistingTable([old EXCEPT ![index_of(old, changed.name)] =
                        [reflected(changed) EXCEPT
                            !.primary_key = old[index_of(old, changed.name)].primary_key,
                            !.nullable = old[index_of(old, changed.name)].nullable]])]

\* what a call has done so far: the database as the connection sees it
\* and as committed when the caller's transaction began, the statements
\* executed, the columns reconciled, and how it ended
NoMessage ==
    [table |-> "-", column |-> "-", from |-> SqlType("-", LengthNone),
     to |-> SqlType("-", LengthNone)]

Started(tbls) ==
    [tables |-> tbls, committed |-> tbls, ddl |-> <<>>, column_calls |-> <<>>,
     result |-> ReturnedNone, message |-> NoMessage]

failed(conn) == conn.result.kind = "error"

raise(conn, exc) == [conn EXCEPT !.result = Raised(exc)]

\* a connection that commits every statement it executes
execute_autocommit(conn, statement) ==
    IF accepts(conn.tables, statement)
    THEN [conn EXCEPT !.tables = applied(conn.tables, statement),
                      !.committed = applied(conn.tables, statement),
                      !.ddl = Append(conn.ddl, statement)]
    ELSE [conn EXCEPT !.ddl = Append(conn.ddl, statement),
                      !.result = Raised("ProgrammingError")]

execute(conn, statement) ==
    IF accepts(conn.tables, statement)
    THEN [conn EXCEPT !.tables = applied(conn.tables, statement),
                      !.ddl = Append(conn.ddl, statement)]
    ELSE [conn EXCEPT !.ddl = Append(conn.ddl, statement),
                      !.result = Raised("ProgrammingError")]

(***************************************************************************)
(* Column reconciliation.                                                  *)
(***************************************************************************)
\* SQLConnector._sort_types: the sort key of a type is the rank of its
\* python type, then its length
sort_key(sql_type) ==
    LET rank == CASE sql_type.cls \in {"NVARCHAR", "VARCHAR", "HexByteString", "VARBINARY"} -> 900
                  [] sql_type.cls = "DATETIME" -> 600
                  [] sql_type.cls \in {"BIGINT", "INTEGER", "BIT", "BOOLEAN"} -> 300
                  [] OTHER -> 0
    IN <<rank, sql_type.length>>

key_greater(a, b) == a[1] > b[1] \/ (a[1] = b[1] /\ a[2] > b[2])

\* a sort that leaves the pair in the order given
sort_types_unsorted(sql_types) == sql_types

\* sorted(..., reverse=True) of a pair: stable, largest key first
sort_types(sql_types) ==
    IF key_greater(sort_key(sql_types[2]), sort_key(sql_types[1]))
    THEN <<sql_types[2], sql_types[1]>>
    ELSE sql_types

\* the generic form of the type is a string type
generic_string(sql_type) == sql_type.cls \in {"NVARCHAR", "VARCHAR"}

\* SQLConnector.merge_sql_types on the pair [current_type, sql_type]: the
\* first sorted candidate that is a wide enough string type, or that is
\* the current type
merge_candidate(opt, current_type) ==
    IF generic_string(opt)
    THEN \/ opt.length = LengthNone
         \/ (current_type.length # LengthNone /\ opt.length >= current_type.length)
    ELSE type_str(opt) = type_str(current_type)

\* a merge that settles on the required type
merge_sql_types_prefers_required(sql_types) == Returned(sql_types[2])

merge_sql_types(sql_types) ==
    LET current_type == sql_types[1]
        sorted == sort_types(sql_types)
    IN IF merge_candidate(sorted[1], current_type) THEN Returned(sorted[1])
       ELSE IF merge_candidate(sorted[2], current_type) THEN Returned(sorted[2])
       ELSE Raised("ValueError")

\* remove_collation: the collation of a string type, taken off the type
remove_collation(column_object) ==
    IF has_collation(column_object.type) THEN column_object.collation ELSE NoCollation

\* update_collation: a string type gets the collation that was taken off
update_collation(column, current_collation) ==
    IF has_collation(column.type) /\ current_collation # NoCollation
    THEN [column EXCEPT !.collation = current_collation]
    ELSE column

\* the message of the error raised for an unsupported type change
AlterMessage(full_table_name, column_name, current_type, compatible_sql_type) ==
    [table |-> full_table_name, column |-> column_name,
     from |-> type_str(current_type), to |-> type_str(compatible_sql_type)]

\* _create_empty_column without the allow_column_add test
_create_empty_column_unguarded(conn, full_table_name, column_name, sql_type) ==
    execute(conn, Statement("ADD", full_table_name,
                            <<[Column(column_name, sql_type, FALSE)
                                  EXCEPT !.nullable = TRUE]>>))

_create_empty_column(conn, full_table_name, column_name, sql_type) ==
    IF ~allow_column_add THEN raise(conn, "NotImplementedError")
    ELSE execute(conn, Statement("ADD", full_table_name,
                                 <<[Column(column_name, sql_type, FALSE)
                                       EXCEPT !.nullable = TRUE]>>))

\* _adapt_column_type without its two early returns
_adapt_column_type_no_early_return(conn, full_table_name, column_name, sql_type, column_object) ==
    LET current_type == column_object.type
        current_collation == remove_collation(column_object)
        merged == merge_sql_types(<<current_type, sql_type>>)
        compatible_sql_type == merged.type
    IN IF merged.kind = "error" THEN raise(conn, merged.exc)
       ELSE IF ~allow_column_alter
            THEN [raise(conn, "NotImplementedError") EXCEPT
                     !.message = AlterMessage(full_table_name, column_name,
                                              current_type, compatible_sql_type)]
       ELSE execute(conn, Statement("ALTER", full_table_name,
                <<update_collation(
                     [Column(column_name, compatible_sql_type, FALSE)
                         EXCEPT !.nullable = TRUE],
                     current_collation)>>))

\* _adapt_column_type without the allow_column_alter test
_adapt_column_type_unguarded(conn, full_table_name, column_name, sql_type, column_object) ==
    LET current_type == column_object.type
        current_collation == remove_collation(column_object)
        merged == merge_sql_types(<<current_type, sql_type>>)
        compatible_sql_type == merged.type
    IN IF type_str(sql_type) = type_str(current_type) THEN conn
       ELSE IF merged.kind = "error" THEN raise(conn, merged.exc)
       ELSE IF type_str(compatible_sql_type) = type_str(current_type) THEN conn
       ELSE execute(conn, Statement("ALTER", full_table_name,
                <<update_collation(
                     [Column(column_name, compatible_sql_type, FALSE)
                         EXCEPT !.nullable = TRUE],
                     current_collation)>>))

_adapt_column_type(conn, full_table_name, column_name, sql_type, column_object) ==
    LET current_type == column_object.type
        current_collation == remove_collation(column_object)
        merged == merge_sql_types(<<current_type, sql_type>>)
        compatible_sql_type == merged.type
    IN IF type_str(sql_type) = type_str(current_type) THEN conn
       ELSE IF merged.kind = "error" THEN raise(conn, merged.exc)
       ELSE IF type_str(compatible_sql_type) = type_str(current_type) THEN conn
       ELSE IF ~allow_column_alter
            THEN [raise(conn, "NotImplementedError") EXCEPT
                     !.message = AlterMessage(full_table_name, column_name,
                                              current_type, compatible_sql_type)]
       ELSE execute(conn, Statement("ALTER", full_table_name,
                <<update_collation(
                     [Column(column_name, compatible_sql_type, FALSE)
                         EXCEPT !.nullable = TRUE],
                     current_collation)>>))

\* column_exists: a case-sensitive lookup in the table's columns
column_exists(conn, full_table_name, column_name) ==
    index_of(conn.tables[full_table_name].columns, column_name) # 0

\* column_object is the column found by the caller, or None
prepare_column(conn, full_table_name, column_name, sql_type, column_object) ==
    LET called == [conn EXCEPT !.column_calls = Append(@, column_name)]
        columns == conn.tables[full_table_name].columns
    IN IF column_object = None /\ ~column_exists(conn, full_table_name, column_name)
       THEN _create_empty_column(called, full_table_name, column_name, sql_type)
       ELSE _adapt_column_type(called, full_table_name, column_name, sql_type,
                IF column_object # None THEN column_object
                ELSE columns[index_of(columns, column_name)])

(***************************************************************************)
(* Table reconciliation.                                                   *)
(***************************************************************************)
\* a stream schema: whether it has a "properties" key, and the properties
\* in insertion order
TableSchema(has_properties, properties) ==
    [has_properties |-> has_properties, properties |-> properties]

Property(name, jsonschema_type) == [name |-> name, def |-> jsonschema_type]

temp_name(table_name) == "#" \o table_name

\* table columns that never carry the primary-key flag
RECURSIVE table_columns_no_key(_, _)
table_columns_no_key(properties, primary_keys) ==
    IF properties = <<>> THEN [result |-> ReturnedNone, columns |-> <<>>]
    ELSE LET property == Head(properties)
             is_pk == property.name \in primary_keys
             sql_type == to_sql_type(property.def, is_pk)
             rest == table_columns_no_key(Tail(properties), primary_keys)
         IN IF sql_type.kind = "error" THEN [result |-> sql_type, columns |-> <<>>]
            ELSE IF rest.result.kind = "error" THEN rest
            ELSE [rest EXCEPT !.columns =
                     <<Column(property.name, sql_type.type, FALSE)>> \o @]

\* the columns create_empty_table builds, or the first error of the mapper
RECURSIVE table_columns(_, _)
table_columns(properties, primary_keys) ==
    IF properties = <<>> THEN [result |-> ReturnedNone, columns |-> <<>>]
    ELSE LET property == Head(properties)
             is_pk == property.name \in primary_keys
             sql_type == to_sql_type(property.def, is_pk)
             rest == table_columns(Tail(properties), primary_keys)
         IN IF sql_type.kind = "error" THEN [result |-> sql_type, columns |-> <<>>]
            ELSE IF rest.result.kind = "error" THEN rest
            ELSE [rest EXCEPT !.columns =
                     <<Column(property.name, sql_type.type, is_pk)>> \o @]

\* create_empty_table reading a missing "properties" key as no properties
create_empty_table_lenient(conn, table_name, schema, primary_keys, as_temp_table) ==
    LET built == table_columns(schema.properties, primary_keys)
        new_table == IF as_temp_table THEN temp_name(table_name) ELSE table_name
    IN IF built.result.kind = "error" THEN raise(conn, built.result.exc)
       ELSE execute(conn, Statement("CREATE", new_table, built.columns))

create_empty_table(conn, table_name, schema, primary_keys, as_temp_table) ==
    LET built == table_columns(schema.properties, primary_keys)
        new_table == IF as_temp_table THEN temp_name(table_name) ELSE table_name
    IN IF ~schema.has_properties THEN raise(conn, "RuntimeError")
       ELSE IF built.result.kind = "error" THEN raise(conn, built.result.exc)
       ELSE execute(conn, Statement("CREATE", new_table, built.columns))

\* a loop that reconciles the first property only
prepare_columns_first_only(conn, full_table_name, columns, properties, primary_keys) ==
    IF properties = <<>> \/ failed(conn) THEN conn
    ELSE LET property == Head(properties)
             column_object == IF index_of(columns, property.name) # 0
                              THEN columns[index_of(columns, property.name)]
                              ELSE None
             is_pk == property.name \in primary_keys
             sql_type == to_sql_type(property.def, is_pk)
         IN IF sql_type.kind = "error" THEN raise(conn, sql_type.exc)
            ELSE prepare_column(conn, full_table_name, property.name,
                                sql_type.type, column_object)

\* the loop of prepare_table over the schema's properties; columns is the
\* table as read before the loop
RECURSIVE prepare_columns(_, _, _, _, _)
prepare_columns(conn, full_table_name, columns, properties, primary_keys) ==
    IF properties = <<>> \/ failed(conn) THEN conn
    ELSE LET property == Head(properties)
             column_object == IF index_of(columns, property.name) # 0
                              THEN columns[index_of(columns, property.name)]
                              ELSE None
             is_pk == property.name \in primary_keys
             sql_type == to_sql_type(property.def, is_pk)
         IN IF sql_type.kind = "error" THEN raise(conn, sql_type.exc)
            ELSE prepare_columns(
                    prepare_column(conn, full_table_name, property.name,
                                   sql_type.type, column_object),
                    full_table_name, columns, Tail(properties), primary_keys)

\* prepare_table without the table_exists test
prepare_table_always_creates(conn, full_table_name, schema, primary_keys, as_temp_table) ==
    create_empty_table(conn, full_table_name, schema, primary_keys, as_temp_table)

prepare_table(conn, full_table_name, schema, primary_keys, as_temp_table) ==
    IF ~conn.tables[full_table_name].exists
    THEN create_empty_table(conn, full_table_name, schema, primary_keys, as_temp_table)
    ELSE IF ~schema.has_properties THEN raise(conn, "KeyError")
    ELSE prepare_columns(conn, full_table_name, conn.tables[full_table_name].columns,
                         schema.properties, primary_keys)

\* copy_table_structure without the table_exists test
copy_table_structure_unchecked(conn, full_table_name, from_table, as_temp_table) ==
    LET new_table == IF as_temp_table THEN temp_name(full_table_name)
                     ELSE full_table_name
    IN execute(conn, Statement("CREATE", new_table, from_table.columns))

copy_table_structure(conn, full_table_name, from_table, as_temp_table) ==
    LET new_table == IF as_temp_table THEN temp_name(full_table_name)
                     ELSE full_table_name
    IN IF conn.tables[full_table_name].exists THEN raise(conn, "RuntimeError")
       ELSE execute(conn, Statement("CREATE", new_table, from_table.columns))

\* sa.Column(column.name, column.type): only the name and the type are kept
clone_table(conn, new_table_name, table, temp_table) ==
    LET new_columns == [i \in 1..Len(table.columns) |->
                           [Column(table.columns[i].name, table.columns[i].type, FALSE)
                               EXCEPT !.collation = table.columns[i].collation]]
        new_table == IF temp_table THEN temp_name(new_table_name) ELSE new_table_name
    IN execute(conn, Statement("CREATE", new_table, new_columns))

(***************************************************************************)
(* The state machine.                                                      *)
(***************************************************************************)
Outcomes ==
    {ReturnedNone}
    \cup { Returned(t) : t \in SqlTypes }
    \cup { Raised(e) : e \in {"RuntimeError", "KeyError", "TypeError"} }

TypeOK ==
    /\ config \in {Absent, "true", "false"}
    /\ pc \in {"idle", "done"}
    /\ op \in {"-", "to_sql_type", "pick_individual_type", "pick_best_sql_type"}
    /\ arg_schema \in JsonSchemas
    /\ arg_types \in SqlTypeArrays
    /\ is_primary_key \in BOOLEAN
    /\ result \in Outcomes

NoTables == [name \in TableNames |-> NoTable]

(***************************************************************************)
(* The target and the rows of the stream's table.                          *)
(***************************************************************************)
RowKeys == {"r1", "r2", "manual"}
RecordKeys == {"r1", "r2"}
RecordData == {"a", "b"}

\* a row holds its business data and the metadata columns
\* _sdc_table_version and _sdc_deleted_at; NULL is NullVersion, NullTime
Row(data, version, deleted_at) ==
    [present |-> TRUE, data |-> data, version |-> version, deleted_at |-> deleted_at]

NoRow == [present |-> FALSE, data |-> "-", version |-> NullVersion, deleted_at |-> NullTime]

NoRows == [key \in RowKeys |-> NoRow]

Target(state, connection_settings, add_record_metadata, activate_version, hard_delete) ==
    [state |-> state, connection_settings |-> connection_settings,
     add_record_metadata |-> add_record_metadata,
     activate_version |-> activate_version, hard_delete |-> hard_delete]

NoTarget == Target("none", FALSE, FALSE, FALSE, FALSE)

NoArgs ==
    [full_table_name |-> "-", schema |-> TableSchema(FALSE, <<>>),
     primary_keys |-> {}, as_temp_table |-> FALSE, column_name |-> "-",
     sql_type |-> SqlType("-", LengthNone), column_object |-> None,
     from_table |-> NoTable]

\* the connector's class attributes, and a connection nothing has used yet
TableIdle ==
    /\ allow_column_add = TRUE
    /\ allow_column_alter = FALSE
    /\ tables = NoTables
    /\ before = NoTables
    /\ committed = NoTables
    /\ ddl = <<>>
    /\ column_calls = <<>>
    /\ message = NoMessage
    /\ arg_table = NoArgs
    /\ ncalls = 0

(***************************************************************************)
(* HexByteString.process_bind_param.  A Python value is None, a str (its   *)
(* characters), bytes-like (its bytes) or something else.                  *)
(***************************************************************************)
PyValue(kind, chars, bytes) == [kind |-> kind, chars |-> chars, bytes |-> bytes]

NoneValue == PyValue("None", <<>>, <<>>)
Str(chars) == PyValue("str", chars, <<>>)
Bytes(bytes) == PyValue("bytes", <<>>, bytes)

BytesLike == {"bytearray", "memoryview", "bytes"}

Bound(v) == [kind |-> "ok", value |-> v, exc |-> "-"]
BindRaised(e) == [kind |-> "error", value |-> NoneValue, exc |-> e]
NotBound == [kind |-> "none", value |-> NoneValue, exc |-> "-"]

\* the hexadecimal digits, by value
Digits ==
    <<"0", "1", "2", "3", "4", "5", "6", "7", "8", "9", "a", "b", "c", "d", "e", "f">>

lower(c) ==
    CASE c = "A" -> "a" [] c = "B" -> "b" [] c = "C" -> "c"
      [] c = "D" -> "d" [] c = "E" -> "e" [] c = "F" -> "f"
      [] OTHER -> c

\* the value of a character as a digit: 16 or more when it is none
hexval(c) ==
    IF \E i \in 1..Len(Digits) : Digits[i] = lower(c)
    THEN (CHOOSE i \in 1..Len(Digits) : Digits[i] = lower(c)) - 1
    ELSE 37

\* bytes.fromhex: whitespace before a byte is skipped, then two digits are
\* read; anything else is a ValueError
RECURSIVE fromhex(_)
fromhex(chars) ==
    IF chars = <<>> THEN Bound(Bytes(<<>>))
    ELSE IF Head(chars) = " " THEN fromhex(Tail(chars))
    ELSE IF Len(chars) < 2 \/ hexval(chars[1]) >= 16 \/ hexval(chars[2]) >= 16
         THEN BindRaised("ValueError")
    ELSE LET rest == fromhex(SubSeq(chars, 3, Len(chars)))
         IN IF rest.kind = "error" THEN rest
            ELSE Bound(Bytes(<<16 * hexval(chars[1]) + hexval(chars[2])>>
                             \o rest.value.bytes))

startswith(chars, prefix) ==
    Len(chars) >= Len(prefix) /\ SubSeq(chars, 1, Len(prefix)) = prefix

\* a binding that does not pad a string of odd length
process_bind_param_unpadded(v) ==
    LET stripped == IF startswith(v.chars, <<"\\", "x">>) \/ startswith(v.chars, <<"0", "x">>)
                    THEN SubSeq(v.chars, 3, Len(v.chars))
                    ELSE v.chars
    IN IF v = NoneValue THEN Bound(NoneValue)
       ELSE IF v.kind = "str" THEN fromhex(stripped)
       ELSE IF v.kind \notin BytesLike THEN BindRaised("TypeError")
       ELSE Bound(v)

process_bind_param(v) ==
    LET stripped == IF startswith(v.chars, <<"\\", "x">>) \/ startswith(v.chars, <<"0", "x">>)
                    THEN SubSeq(v.chars, 3, Len(v.chars))
                    ELSE v.chars
        padded == IF Len(stripped) % 2 # 0 THEN <<"0">> \o stripped ELSE stripped
    IN IF v = NoneValue THEN Bound(NoneValue)
       ELSE IF v.kind = "str" THEN fromhex(padded)
       ELSE IF v.kind \notin BytesLike THEN BindRaised("TypeError")
       ELSE Bound(v)

\* no target has been constructed and the stream's table holds no row
SinkIdle ==
    /\ target = NoTarget
    /\ rows = NoRows
    /\ prior_rows = NoRows
    /\ marker = NullVersion
    /\ prior_marker = NullVersion
    /\ now = 1
    /\ processed = 0
    /\ value = NoneValue
    /\ bound = NotBound

\* SqlServerConnector.__init__: the configuration either leaves
\* interpret_content_encoding out or sets it
Init ==
    /\ config \in {Absent, "true", "false"}
    /\ pc = "idle"
    /\ op = "-"
    /\ arg_schema = EmptySchema
    /\ arg_types = <<>>
    /\ is_primary_key = FALSE
    /\ result = ReturnedNone
    /\ TableIdle
    /\ SinkIdle

CallToSqlType ==
    /\ pc = "idle"
    /\ \E jsonschema_type \in JsonSchemas, pk \in BOOLEAN :
        /\ op' = "to_sql_type"
        /\ arg_schema' = jsonschema_type
        /\ is_primary_key' = pk
        /\ result' = to_sql_type(jsonschema_type, pk)
    /\ pc' = "done"
    /\ UNCHANGED <<config, arg_types, table_vars, sink_vars>>

CallPickIndividualType ==
    /\ pc = "idle"
    /\ \E jsonschema_type \in TaggedSchemas, pk \in BOOLEAN :
        /\ op' = "pick_individual_type"
        /\ arg_schema' = jsonschema_type
        /\ is_primary_key' = pk
        /\ result' = pick_individual_type(jsonschema_type, pk)
    /\ pc' = "done"
    /\ UNCHANGED <<config, arg_types, table_vars, sink_vars>>

CallPickBestSqlType ==
    /\ pc = "idle"
    /\ \E sql_type_array \in SqlTypeArrays, pk \in BOOLEAN :
        /\ op' = "pick_best_sql_type"
        /\ arg_types' = sql_type_array
        /\ is_primary_key' = pk
        /\ result' = Returned(pick_best_sql_type(sql_type_array, pk))
    /\ pc' = "done"
    /\ UNCHANGED <<config, arg_schema, table_vars, sink_vars>>

\* the call's outcome has been consumed; the connector is ready again
Return ==
    /\ pc = "done"
    /\ pc' = "idle"
    /\ op' = "-"
    /\ arg_schema' = EmptySchema
    /\ arg_types' = <<>>
    /\ is_primary_key' = FALSE
    /\ result' = ReturnedNone
    /\ UNCHANGED <<config, table_vars, sink_vars>>

Next ==
    \/ CallToSqlType
    \/ CallPickIndividualType
    \/ CallPickBestSqlType
    \/ Return

Spec == Init /\ [][Next]_vars

(***************************************************************************)
(* The state machine of the DDL operations: a connector with its policy    *)
(* flags, a database holding the stream's table "t" and its temporary      *)
(* twin "#t", and calls of the table operations on one connection.         *)
(***************************************************************************)
PropertyNames == {"id", "info"}
LegacyName == "legacy"
ColumnNames == PropertyNames \cup {LegacyName}

integer_def == Schema(TagStr("integer"), Absent, Absent, <<>>)
nullable_string_def == Schema(TagList(<<"string", "null">>), Absent, Absent, <<>>)
malformed_def == Schema(TagNumber, Absent, Absent, <<>>)

PropertyDefs == {integer_def, nullable_string_def, EmptySchema, malformed_def}

\* the orders in which a schema can list distinct properties
PropertyOrders ==
    { names \in SeqsUpTo(PropertyNames, Cardinality(PropertyNames)) :
        \A i, j \in 1..Len(names) : i # j => names[i] # names[j] }

TableSchemas ==
    {TableSchema(FALSE, <<>>)}
    \cup UNION { { TableSchema(TRUE, [i \in 1..Len(names) |->
                                        Property(names[i], defs[i])]) :
                      defs \in [1..Len(names) -> PropertyDefs] } :
                  names \in PropertyOrders }

\* the key_properties a stream declares
KeyProperties == {{}, {"id"}, PropertyNames}

\* types a caller of prepare_column asks for
RequiredTypes ==
    {BIGINT, NVARCHAR(LengthNone), NVARCHAR(PrimaryKeyLength), NOTYPE, DATETIME}

\* tables a database may hold before the connector touches it
InitialTables ==
    { NoTable,
      ExistingTable(<<reflected(Column("id", BIGINT, TRUE))>>),
      ExistingTable(<<reflected(Column("id", BIGINT, TRUE)),
                      reflected(Column(LegacyName, NVARCHAR(LengthNone), FALSE))>>),
      ExistingTable(<<reflected(Column("id", NVARCHAR(LengthNone), FALSE)),
                      reflected(Column("info", BIGINT, FALSE))>>) }

InitTable ==
    /\ config = Absent
    /\ pc = "idle"
    /\ op = "-"
    /\ arg_schema = EmptySchema
    /\ arg_types = <<>>
    /\ is_primary_key = FALSE
    /\ result = ReturnedNone
    /\ allow_column_add \in BOOLEAN
    /\ allow_column_alter \in BOOLEAN
    /\ \E table \in InitialTables : tables = [NoTables EXCEPT !["t"] = table]
    /\ before = tables
    /\ committed = tables
    /\ ddl = <<>>
    /\ column_calls = <<>>
    /\ message = NoMessage
    /\ arg_table = NoArgs
    /\ ncalls = 0
    /\ SinkIdle

\* a call runs to its end on the connection: what it did becomes the state
Finish(name, args, conn) ==
    /\ pc' = "done"
    /\ op' = name
    /\ arg_table' = args
    /\ before' = tables
    /\ tables' = conn.tables
    /\ committed' = conn.committed
    /\ ddl' = conn.ddl
    /\ column_calls' = conn.column_calls
    /\ result' = conn.result
    /\ message' = conn.message
    /\ ncalls' = ncalls + 1
    /\ UNCHANGED <<config, arg_schema, arg_types, is_primary_key,
                   allow_column_add, allow_column_alter, sink_vars>>

CallPrepareTable ==
    /\ pc = "idle"
    /\ ncalls < MaxCalls
    /\ \E schema \in TableSchemas, primary_keys \in KeyProperties,
          as_temp_table \in BOOLEAN :
        Finish("prepare_table",
               [NoArgs EXCEPT !.full_table_name = "t", !.schema = schema,
                              !.primary_keys = primary_keys,
                              !.as_temp_table = as_temp_table],
               prepare_table(Started(tables), "t", schema, primary_keys, as_temp_table))

\* prepare_column on an existing table, as prepare_table calls it: with the
\* column it found, or with None
CallPrepareColumn ==
    /\ pc = "idle"
    /\ ncalls < MaxCalls
    /\ tables["t"].exists
    /\ \E column_name \in ColumnNames, sql_type \in RequiredTypes :
        LET columns == tables["t"].columns
            column_object == IF index_of(columns, column_name) # 0
                             THEN columns[index_of(columns, column_name)]
                             ELSE None
        IN Finish("prepare_column",
                  [NoArgs EXCEPT !.full_table_name = "t", !.column_name = column_name,
                                 !.sql_type = sql_type, !.column_object = column_object],
                  prepare_column(Started(tables), "t", column_name, sql_type,
                                 column_object))

CallCopyTableStructure ==
    /\ pc = "idle"
    /\ ncalls < MaxCalls
    /\ \E from_name \in TableNames, as_temp_table \in BOOLEAN :
        /\ tables[from_name].exists
        /\ Finish("copy_table_structure",
                  [NoArgs EXCEPT !.full_table_name = "t",
                                 !.from_table = tables[from_name],
                                 !.as_temp_table = as_temp_table],
                  copy_table_structure(Started(tables), "t", tables[from_name],
                                       as_temp_table))

CallCloneTable ==
    /\ pc = "idle"
    /\ ncalls < MaxCalls
    /\ \E from_name \in TableNames, temp_table \in BOOLEAN :
        /\ tables[from_name].exists
        /\ Finish("clone_table",
                  [NoArgs EXCEPT !.full_table_name = "t",
                                 !.from_table = tables[from_name],
                                 !.as_temp_table = temp_table],
                  clone_table(Started(tables), "t", tables[from_name], temp_table))

\* the call's outcome has been consumed and the caller commits; the
\* connection is ready again
ReturnTable ==
    /\ pc = "done"
    /\ pc' = "idle"
    /\ op' = "-"
    /\ result' = ReturnedNone
    /\ before' = tables
    /\ committed' = tables
    /\ ddl' = <<>>
    /\ column_calls' = <<>>
    /\ message' = NoMessage
    /\ arg_table' = NoArgs
    /\ UNCHANGED <<config, arg_schema, arg_types, is_primary_key,
                   allow_column_add, allow_column_alter, tables, ncalls, sink_vars>>

NextTable ==
    \/ CallPrepareTable
    \/ CallPrepareColumn
    \/ CallCopyTableStructure
    \/ CallCloneTable
    \/ ReturnTable

SpecTable == InitTable /\ [][NextTable]_vars

(***************************************************************************)
(* The state machine of the type merge: merge_sql_types is called on a     *)
(* pair of SQL types, the current one first.                               *)
(***************************************************************************)
CallMergeSqlTypes ==
    /\ pc = "idle"
    /\ \E current_type \in SqlTypes, sql_type \in SqlTypes :
        /\ op' = "merge_sql_types"
        /\ arg_types' = <<current_type, sql_type>>
        /\ result' = merge_sql_types(<<current_type, sql_type>>)
    /\ pc' = "done"
    /\ UNCHANGED <<config, arg_schema, is_primary_key, table_vars, sink_vars>>

NextMerge ==
    \/ CallMergeSqlTypes
    \/ Return

SpecMerge == Init /\ [][NextMerge]_vars

(***************************************************************************)
(* The state machine of property names that differ in case only: streams   *)
(* that name their key "id" or "ID", reconciled against the table "t".     *)
(***************************************************************************)
CaseNames == {"id", UpperName}

CaseOrders ==
    { names \in SeqsUpTo(CaseNames, Cardinality(CaseNames)) :
        \A i, j \in 1..Len(names) : i # j => names[i] # names[j] }

CaseSchemas ==
    UNION { { TableSchema(TRUE, [i \in 1..Len(names) |->
                                   Property(names[i], defs[i])]) :
                 defs \in [1..Len(names) -> {integer_def, nullable_string_def}] } :
             names \in CaseOrders \ {<<>>} }

CallPrepareTableCase ==
    /\ pc = "idle"
    /\ ncalls < MaxCalls
    /\ \E schema \in CaseSchemas, primary_keys \in {{}, {"id"}} :
        Finish("prepare_table",
               [NoArgs EXCEPT !.full_table_name = "t", !.schema = schema,
                              !.primary_keys = primary_keys],
               prepare_table(Started(tables), "t", schema, primary_keys, FALSE))

NextCase ==
    \/ CallPrepareTableCase
    \/ ReturnTable

SpecCase == InitTable /\ [][NextCase]_vars

(***************************************************************************)
(* The state machine of a repeated schema: a stream whose properties cover *)
(* every SQL type of the mapper is reconciled, and the same schema message *)
(* arrives again.                                                          *)
(***************************************************************************)
string_def == Schema(TagStr("string"), Absent, Absent, <<>>)

\* one property definition for each SQL type the mapper returns
ConvergeDefs ==
    {integer_def, string_def, EmptySchema}
    \cup { Schema(TagStr(s), Absent, Absent, <<>>) :
              s \in {"object", "array", "number", "boolean"} }
    \cup { Schema(TagStr("string"), f, Absent, <<>>) : f \in Formats \ {Absent} }
    \cup { Schema(TagStr("string"), Absent, "base16", <<>>) }

ConvergeSchemas ==
    { TableSchema(TRUE, <<Property("info", def)>>) : def \in ConvergeDefs }
    \cup { TableSchema(TRUE, <<Property("id", key), Property("info", def)>>) :
              key \in {integer_def, string_def}, def \in ConvergeDefs }

InitConverge ==
    /\ config \in {Absent, "true"}
    /\ pc = "idle"
    /\ op = "-"
    /\ arg_schema = EmptySchema
    /\ arg_types = <<>>
    /\ is_primary_key = FALSE
    /\ result = ReturnedNone
    /\ allow_column_add \in BOOLEAN
    /\ allow_column_alter \in BOOLEAN
    /\ \E table \in InitialTables : tables = [NoTables EXCEPT !["t"] = table]
    /\ before = tables
    /\ committed = tables
    /\ ddl = <<>>
    /\ column_calls = <<>>
    /\ message = NoMessage
    /\ arg_table = NoArgs
    /\ ncalls = 0
    /\ SinkIdle

CallPrepareTableFirst ==
    /\ pc = "idle"
    /\ ncalls < MaxCalls
    /\ \E schema \in ConvergeSchemas, primary_keys \in {{}, {"id"}, {"info"}},
          as_temp_table \in BOOLEAN :
        Finish("prepare_table",
               [NoArgs EXCEPT !.full_table_name = "t", !.schema = schema,
                              !.primary_keys = primary_keys,
                              !.as_temp_table = as_temp_table],
               prepare_table(Started(tables), "t", schema, primary_keys, as_temp_table))

\* the call has succeeded and prepare_table is called with its arguments
\* once more, on the same connection
CallPrepareTableAgain ==
    /\ pc = "done"
    /\ op = "prepare_table"
    /\ result.kind # "error"
    /\ Finish("prepare_table_again", arg_table,
              prepare_table([Started(tables) EXCEPT !.committed = committed],
                            arg_table.full_table_name, arg_table.schema,
                            arg_table.primary_keys, arg_table.as_temp_table))

NextConverge ==
    \/ CallPrepareTableFirst
    \/ CallPrepareTableAgain
    \/ ReturnTable

SpecConverge == InitConverge /\ [][NextConverge]_vars

(***************************************************************************)
(* The state machine of binding: values of a record are bound to a         *)
(* binary-from-hex column, one at a time.                                  *)
(***************************************************************************)
BindValues ==
    {NoneValue, PyValue("int", <<>>, <<>>)}
    \cup { Str(chars) :
              chars \in SeqsUpTo({"0", "1", "2", "a", "A", "x", "\\", "g", " "},
                                 MaxHexLen) }
    \cup { PyValue(kind, <<>>, bytes) :
              kind \in BytesLike, bytes \in {<<>>, <<10, 18>>, <<255>>} }

CallProcessBindParam ==
    /\ pc = "idle"
    /\ \E v \in BindValues :
        /\ value' = v
        /\ bound' = process_bind_param(v)
    /\ pc' = "done"
    /\ op' = "process_bind_param"
    /\ UNCHANGED <<config, arg_schema, arg_types, is_primary_key, result,
                   table_vars, target, rows, prior_rows, marker, prior_marker,
                   now, processed>>

ReturnBind ==
    /\ pc = "done"
    /\ pc' = "idle"
    /\ op' = "-"
    /\ value' = NoneValue
    /\ bound' = NotBound
    /\ UNCHANGED <<config, arg_schema, arg_types, is_primary_key, result,
                   table_vars, target, rows, prior_rows, marker, prior_marker,
                   now, processed>>

NextBind ==
    \/ CallProcessBindParam
    \/ ReturnBind

SpecBind == Init /\ [][NextBind]_vars

(***************************************************************************)
(* The caller's transaction: prepare_table runs on the caller's            *)
(* connection, and the caller rolls back what the call did.                *)
(***************************************************************************)
\* the caller rolls its transaction back: the connection sees the
\* committed database again
CallerRollback ==
    /\ pc = "done"
    /\ op = "prepare_table"
    /\ op' = "rollback"
    /\ tables' = committed
    /\ UNCHANGED <<pc, before, committed, ddl, column_calls, result, message,
                   arg_table, ncalls, config, arg_schema, arg_types,
                   is_primary_key, allow_column_add, allow_column_alter, sink_vars>>

NextRollback ==
    \/ CallPrepareTable
    \/ CallerRollback

SpecRollback == InitTable /\ [][NextRollback]_vars

(***************************************************************************)
(* The state machine of the target: it is constructed from its settings,   *)
(* then processes SCHEMA, RECORD and ACTIVATE_VERSION messages of one       *)
(* stream, while rows may also be inserted into the table out of band.     *)
(***************************************************************************)
Versions == 1..MaxVersion

\* a construction that makes only the connection-settings assertion
SqlServerTarget_unchecked(connection_settings, add_record_metadata, activate_version, hard_delete) ==
    Target(IF connection_settings THEN "constructed" ELSE "failed",
           connection_settings, add_record_metadata, activate_version, hard_delete)

\* SqlServerTarget.__init__: the base class's construction, then the two
\* assertions; a failed assertion leaves no target
SqlServerTarget(connection_settings, add_record_metadata, activate_version, hard_delete) ==
    Target(IF ~connection_settings THEN "failed"
           ELSE IF ~(add_record_metadata \/ ~activate_version) THEN "failed"
           ELSE "constructed",
           connection_settings, add_record_metadata, activate_version, hard_delete)

\* staleness as a bare SQL comparison, which a NULL version never satisfies
stale_versioned_only(row, new_version) ==
    row.version # NullVersion /\ row.version < new_version

\* a row's version metadata is older than the marker, or it has none
stale(row, new_version) ==
    row.version = NullVersion \/ row.version < new_version

\* a hard delete that removes the rows of the marker's own version too
hard_delete_through(rs, new_version) ==
    [key \in RowKeys |->
        IF rs[key].present /\ (stale(rs[key], new_version) \/ rs[key].version = new_version)
        THEN NoRow ELSE rs[key]]

\* a hard delete that removes one stale row at a time
hard_delete_one_row(rs, new_version) ==
    LET stale_keys == { key \in RowKeys : rs[key].present /\ stale(rs[key], new_version) }
    IN IF stale_keys = {} THEN rs
       ELSE [rs EXCEPT ![CHOOSE key \in stale_keys : TRUE] = NoRow]

\* hard delete: one filtered DELETE of the stale rows
hard_delete(rs, new_version) ==
    [key \in RowKeys |->
        IF rs[key].present /\ stale(rs[key], new_version) THEN NoRow ELSE rs[key]]

\* a soft delete that removes the stale rows
soft_delete_removes(rs, new_version, deleted_at) == hard_delete(rs, new_version)

\* a soft delete that stamps every stale row again
soft_delete_remarks(rs, new_version, deleted_at) ==
    [key \in RowKeys |->
        IF rs[key].present /\ stale(rs[key], new_version)
        THEN [rs[key] EXCEPT !.deleted_at = deleted_at] ELSE rs[key]]

\* soft delete: the stale rows not yet marked get the deletion timestamp
soft_delete(rs, new_version, deleted_at) ==
    [key \in RowKeys |->
        IF rs[key].present /\ stale(rs[key], new_version)
           /\ rs[key].deleted_at = NullTime
        THEN [rs[key] EXCEPT !.deleted_at = deleted_at] ELSE rs[key]]

\* the sink's activate_version under the target's delete policy
activate_version(rs, new_version, deleted_at) ==
    IF target.hard_delete THEN hard_delete(rs, new_version)
    ELSE soft_delete(rs, new_version, deleted_at)

InitVersion ==
    /\ config = Absent
    /\ pc = "idle"
    /\ op = "-"
    /\ arg_schema = EmptySchema
    /\ arg_types = <<>>
    /\ is_primary_key = FALSE
    /\ result = ReturnedNone
    /\ TableIdle
    /\ SinkIdle

ConstructTarget ==
    /\ target.state = "none"
    /\ \E connection_settings, add_record_metadata, activate, hard \in BOOLEAN :
          target' = SqlServerTarget(connection_settings, add_record_metadata,
                                    activate, hard)
    /\ UNCHANGED <<rows, prior_rows, marker, prior_marker, now, processed,
                   mapper_vars, table_vars,
                   bind_vars>>

Processing ==
    /\ target.state = "constructed"
    /\ processed < MaxMessages

ProcessSchema ==
    /\ Processing
    /\ processed' = processed + 1
    /\ prior_rows' = rows
    /\ prior_marker' = marker
    /\ marker' = NullVersion
    /\ UNCHANGED <<target, rows, now, mapper_vars, table_vars,
                   bind_vars>>

\* a RECORD of the load with stream version `version` is upserted by key
ProcessRecord ==
    /\ Processing
    /\ \E key \in RecordKeys, data \in RecordData, version \in Versions :
          rows' = [rows EXCEPT ![key] =
                      Row(data,
                          IF target.add_record_metadata THEN version ELSE NullVersion,
                          NullTime)]
    /\ processed' = processed + 1
    /\ prior_rows' = rows
    /\ prior_marker' = marker
    /\ marker' = NullVersion
    /\ UNCHANGED <<target, now, mapper_vars, table_vars,
                   bind_vars>>

\* an ACTIVATE_VERSION message: applied when activate_version is set,
\* ignored otherwise
ProcessActivateVersion ==
    /\ Processing
    /\ \E new_version \in Versions :
          IF target.activate_version
          THEN /\ rows' = activate_version(rows, new_version, now)
               /\ marker' = new_version
               /\ now' = now + 1
          ELSE /\ marker' = NullVersion
               /\ UNCHANGED <<rows, now>>
    /\ processed' = processed + 1
    /\ prior_rows' = rows
    /\ prior_marker' = marker
    /\ UNCHANGED <<target, mapper_vars, table_vars,
                   bind_vars>>

\* someone inserts a row without using the target: it has no deletion
\* timestamp, and a version only if they wrote one
ManualInsert ==
    /\ ~rows["manual"].present
    /\ \E version \in {NullVersion} \cup Versions :
          rows' = [rows EXCEPT !["manual"] = Row("a", version, NullTime)]
    /\ prior_rows' = rows
    /\ prior_marker' = marker
    /\ marker' = NullVersion
    /\ UNCHANGED <<target, now, processed, mapper_vars, table_vars,
                   bind_vars>>

NextVersion ==
    \/ ConstructTarget
    \/ ProcessSchema
    \/ ProcessRecord
    \/ ProcessActivateVersion
    \/ ManualInsert

SpecVersion == InitVersion /\ [][NextVersion]_vars

(***************************************************************************)
(* Properties                                                              *)
(***************************************************************************)
Called(name) == pc = "done" /\ op = name

\* the unicode-text type the primary-key rule decides
SizedUnicodeText == SqlType("NVARCHAR", IF is_primary_key THEN 450 ELSE LengthNone)

\* the precedence as the specification lists it
ListedOrder ==
    << "HexByteString", "JSON", "UNIQUEIDENTIFIER", "NVARCHAR", "DATETIME", "DATE",
       "TIME", "DECIMAL", "BIGINT", "BIT", "NOTYPE" >>

\* the same list with the 32-bit INTEGER class between BIGINT and BIT
ListedOrderWithInteger ==
    << "HexByteString", "JSON", "UNIQUEIDENTIFIER", "NVARCHAR", "DATETIME", "DATE",
       "TIME", "DECIMAL", "BIGINT", "INTEGER", "BIT", "NOTYPE" >>

RanksPresent(order, types) ==
    { i \in 1..Len(order) : \E j \in 1..Len(types) : types[j].cls = order[i] }

\* the recorded result is an element of the input of the highest-ranked
\* class of `order` that occurs in it, or the sized unicode-text type when
\* no class of `order` occurs
MergerFollows(order) ==
    LET ranks == RanksPresent(order, arg_types)
    IN  IF ranks = {} THEN result = Returned(SizedUnicodeText)
        ELSE /\ result.kind = "ok"
             /\ \E j \in 1..Len(arg_types) : arg_types[j] = result.type
             /\ result.type.cls = order[CHOOSE i \in ranks : \A r \in ranks : i <= r]

\* C1 as stated: for every non-empty input the merger returns an element
\* of the input of the highest-ranked class, in the order binary-from-hex >
\* JSON > unique-identifier > unicode-text > date-time > date > time >
\* decimal > 64-bit integer > bit > untyped, and the sized unicode-text
\* type when no element is of a class of that list.
C1_AsStated ==
    (Called("pick_best_sql_type") /\ arg_types # <<>>) => MergerFollows(ListedOrder)

\* C1 amended: the same, in the order binary-from-hex > JSON >
\* unique-identifier > unicode-text > date-time > date > time > decimal >
\* 64-bit integer > 32-bit integer > bit > untyped.
C1_MergerPicksHighestRanked ==
    (Called("pick_best_sql_type") /\ arg_types # <<>>)
        => MergerFollows(ListedOrderWithInteger)

C1_Witness ==
    /\ Called("pick_best_sql_type")
    /\ arg_types = <<BIT, INTEGER>>
    /\ result = Returned(INTEGER)

\* C2 as stated: merge([a, b]) equals merge([b, a]) as a full column
\* definition (class and length) for every pair a, b.
C2_AsStated ==
    (Called("pick_best_sql_type") /\ Len(arg_types) = 2)
        => result.type = pick_best_sql_type(<<arg_types[2], arg_types[1]>>, is_primary_key)

\* C2 amended: merge([a, b]) and merge([b, a]) are of the same class for
\* every pair, and are the same column definition whenever a and b are of
\* different classes or are equal.
C2_MergerCommutesUpToLength ==
    (Called("pick_best_sql_type") /\ Len(arg_types) = 2)
        => LET swapped == pick_best_sql_type(<<arg_types[2], arg_types[1]>>, is_primary_key)
           IN  /\ result.type.cls = swapped.cls
               /\ (arg_types[1].cls # arg_types[2].cls \/ arg_types[1] = arg_types[2])
                    => result.type = swapped

C2_Witness ==
    /\ Called("pick_best_sql_type")
    /\ arg_types = <<BIGINT, NVARCHAR(450)>>
    /\ result = Returned(NVARCHAR(450))

\* C3 as stated: the merger called with zero input types never returns a
\* type.
C3_AsStated ==
    (Called("pick_best_sql_type") /\ arg_types = <<>>) => result.kind = "error"

\* C3 amended: the merger called with zero input types raises no error and
\* returns unicode-text, bounded to 450 iff isPrimaryKey.
C3_EmptyMergeGivesUnicodeText ==
    (Called("pick_best_sql_type") /\ arg_types = <<>>) => result = Returned(SizedUnicodeText)

C3_Witness ==
    /\ Called("pick_best_sql_type")
    /\ arg_types = <<>>
    /\ is_primary_key
    /\ result = Returned(NVARCHAR(450))

\* C4: mapping {"type": "string"} (no format, no contentEncoding) yields
\* unicode-text bounded to 450 when isPrimaryKey and unbounded unicode-text
\* otherwise.
C4_StringMapsToSizedUnicodeText ==
    (Called("to_sql_type") /\ arg_schema = Schema(TagStr("string"), Absent, Absent, <<>>))
        => result = Returned(SizedUnicodeText)

C4_Witness ==
    /\ Called("to_sql_type")
    /\ arg_schema = Schema(TagStr("string"), Absent, Absent, <<>>)
    /\ is_primary_key
    /\ result = Returned(NVARCHAR(450))

IntegerOrStringSchemas ==
    { Schema(TagList(<<"integer", "string">>), Absent, Absent, <<>>),
      Schema(TagAbsent, Absent, Absent,
             << Schema(TagStr("string"), Absent, Absent, <<>>),
                Schema(TagStr("integer"), Absent, Absent, <<>>),
                Schema(TagStr("null"), Absent, Absent, <<>>) >>) }

\* C5: mapping a union of integer and string, written as the type list
\* ["integer", "string"] or as the anyOf alternatives string, integer, null,
\* with isPrimaryKey false, yields the unicode-text type.
C5_IntegerOrStringIsUnicodeText ==
    (Called("to_sql_type") /\ arg_schema \in IntegerOrStringSchemas /\ ~is_primary_key)
        => (result.kind = "ok" /\ result.type.cls = "NVARCHAR")

DeclaresType(name) ==
    name \in { arg_schema.type.v[i] : i \in 1..Len(arg_schema.type.v) }

MappingRules ==
    << DeclaresType("null"),
       DeclaresType("integer"),
       DeclaresType("object") \/ DeclaresType("array"),
       arg_schema.format = "date-time",
       arg_schema.format = "uuid",
       arg_schema.contentEncoding = "base16" /\ config = "true",
       TRUE >>

BaselineOutcome ==
    LET baseline == th_to_sql_type(arg_schema)
    IN  Returned(IF baseline.cls = "NVARCHAR" THEN SizedUnicodeText ELSE baseline)

RuleOutcomes ==
    << ReturnedNone, Returned(BIGINT), Returned(JSON), Returned(DATETIME),
       Returned(UNIQUEIDENTIFIER), Returned(HexByteString), BaselineOutcome >>

FirstMatchingRule ==
    CHOOSE i \in 1..Len(MappingRules) :
        MappingRules[i] /\ \A j \in 1..(i - 1) : ~MappingRules[j]

\* C6: a single alternative is mapped by the first rule that matches, in
\* the order null (no contribution), integer (64-bit integer), object or
\* array (JSON), format date-time (date-time), format uuid
\* (unique-identifier), base16 with the flag enabled (binary-from-hex),
\* otherwise the baseline mapping; so an integer, object or array
\* alternative that carries format date-time or uuid maps to 64-bit integer
\* or JSON.
C6_FirstMatchingRuleDecides ==
    (Called("pick_individual_type") /\ arg_schema.type.k \in {"str", "list"})
        => /\ result = RuleOutcomes[FirstMatchingRule]
           /\ (arg_schema.format \in {"date-time", "uuid"} /\ ~DeclaresType("null"))
                => /\ DeclaresType("integer") => result = Returned(BIGINT)
                   /\ (~DeclaresType("integer")
                        /\ (DeclaresType("object") \/ DeclaresType("array")))
                        => result = Returned(JSON)

C6_Witness ==
    /\ Called("pick_individual_type")
    /\ arg_schema = Schema(TagStr("integer"), "date-time", Absent, <<>>)
    /\ result = Returned(BIGINT)

NullTag(tag) ==
    \/ tag.k = "str" /\ tag.v[1] = "null"
    \/ tag.k = "list" /\ tag.v # <<>> /\ \A i \in 1..Len(tag.v) : tag.v[i] = "null"

EveryAlternativeNull(schema) ==
    \/ NullTag(schema.type)
    \/ /\ schema.type.k = "absent"
       /\ schema.anyOf # <<>>
       /\ \A i \in 1..Len(schema.anyOf) : NullTag(schema.anyOf[i].type)

\* C7 as stated: when every alternative is null (type "null", a type list
\* of nulls, or an anyOf of null alternatives) the mapper returns the
\* untyped SQL type, for both values of isPrimaryKey.
C7_AsStated ==
    (Called("to_sql_type") /\ EveryAlternativeNull(arg_schema)) => result = Returned(NOTYPE)

\* C7 amended: when every alternative is null the mapper returns
\* unicode-text, bounded to 450 iff isPrimaryKey.
C7_AllNullGivesUnicodeText ==
    (Called("to_sql_type") /\ EveryAlternativeNull(arg_schema))
        => result = Returned(SizedUnicodeText)

C7_Witness ==
    /\ Called("to_sql_type")
    /\ arg_schema.type = TagAbsent
    /\ Len(arg_schema.anyOf) = 2
    /\ EveryAlternativeNull(arg_schema)
    /\ is_primary_key
    /\ result = Returned(NVARCHAR(450))

\* C8: a type description with neither a type tag nor an anyOf maps to the
\* untyped SQL type without an error, for both values of isPrimaryKey.
C8_NoTypeNoUnionIsUntyped ==
    (Called("to_sql_type") /\ arg_schema.type = TagAbsent /\ arg_schema.anyOf = <<>>)
        => result = Returned(NOTYPE)

C8_Witness ==
    /\ Called("to_sql_type")
    /\ arg_schema.type = TagAbsent
    /\ arg_schema.anyOf = <<>>
    /\ arg_schema.format = "date-time"
    /\ is_primary_key
    /\ result = Returned(NOTYPE)

MalformedTag(tag) == tag.k \in {"none", "num", "dict"}

MalformedAlternatives(schema) ==
    { i \in 1..Len(schema.anyOf) :
        schema.anyOf[i].type = TagAbsent \/ MalformedTag(schema.anyOf[i].type) }

Malformed(schema) ==
    \/ MalformedTag(schema.type)
    \/ schema.type = TagAbsent /\ MalformedAlternatives(schema) # {}

\* C9 as stated: a malformed shape always raises an error and never yields
\* a type, both for a type tag that is neither a string nor a list and for
\* an anyOf alternative that has no usable type tag.
C9_AsStated ==
    (Called("to_sql_type") /\ Malformed(arg_schema)) => result.kind = "error"

\* C9 amended: a type tag that is truthy and neither a string nor a list
\* raises an error, and so does a union with an alternative that has no
\* type key or whose tag does not support a membership test (a number);
\* but a tag that is falsy and neither a string nor a list (None, {}) is
\* treated as absent and, with no union, yields the untyped type, and a
\* union whose only malformed alternatives carry an empty object as tag
\* yields a type without an error.
C9_MalformedShapes ==
    Called("to_sql_type")
        => /\ arg_schema.type = TagNumber => result = Raised("RuntimeError")
           /\ (arg_schema.type \in {TagNone, TagEmptyDict} /\ arg_schema.anyOf = <<>>)
                => result = Returned(NOTYPE)
           /\ (arg_schema.type = TagAbsent /\ MalformedAlternatives(arg_schema) # {})
                => IF \E i \in MalformedAlternatives(arg_schema) :
                          arg_schema.anyOf[i].type \in {TagAbsent, TagNone, TagNumber}
                   THEN result.kind = "error"
                   ELSE result.kind = "ok"

C9_Witness ==
    /\ Called("to_sql_type")
    /\ arg_schema.type = TagNumber
    /\ result = Raised("RuntimeError")

C9_WitnessAlternative ==
    /\ Called("to_sql_type")
    /\ arg_schema.type = TagAbsent
    /\ Len(arg_schema.anyOf) = 2
    /\ arg_schema.anyOf[1].type = TagStr("integer")
    /\ arg_schema.anyOf[2].type = TagAbsent
    /\ result = Raised("KeyError")

Base16String ==
    /\ arg_schema.type = TagStr("string")
    /\ arg_schema.contentEncoding = "base16"
    /\ arg_schema.format \notin {"date-time", "uuid"}

\* C10: a string alternative with contentEncoding base16 maps to
\* binary-from-hex iff interpret_content_encoding is enabled; with the flag
\* disabled, or left out of the configuration, it maps to what the same
\* string without contentEncoding maps to, which for a plain string is the
\* sized unicode-text type.  (Formats date-time and uuid are decided by
\* their own rules before contentEncoding is looked at.)
C10_Base16FollowsTheFlag ==
    /\ (Called("pick_individual_type") /\ Base16String)
        => /\ result = Returned(HexByteString) <=> config = "true"
           /\ config # "true"
                => result = pick_individual_type(
                                [arg_schema EXCEPT !.contentEncoding = Absent],
                                is_primary_key)
    /\ (Called("to_sql_type") /\ Base16String)
        => /\ result = Returned(HexByteString) <=> config = "true"
           /\ (config # "true" /\ arg_schema.format = Absent)
                => result = Returned(SizedUnicodeText)

C10_Witness ==
    /\ Called("to_sql_type")
    /\ Base16String
    /\ arg_schema.format = Absent
    /\ config = "true"
    /\ result = Returned(HexByteString)

C10_WitnessDisabled ==
    /\ Called("to_sql_type")
    /\ Base16String
    /\ arg_schema.format = Absent
    /\ config = Absent
    /\ result = Returned(NVARCHAR(LengthNone))

(***************************************************************************)
(* Properties of the DDL operations                                        *)
(***************************************************************************)
\* the column named by the call was not in the table when the call began
MissingColumn == index_of(before["t"].columns, arg_table.column_name) = 0

ExistingColumn == ~MissingColumn

\* the column as it was when the call began
CurrentColumn ==
    before["t"].columns[index_of(before["t"].columns, arg_table.column_name)]

\* the statements of one kind among those the call executed
StatementsOf(stmt) == { i \in 1..Len(ddl) : ddl[i].stmt = stmt }

\* the mapped type of the i-th property of the call's schema
MappedType(i) ==
    to_sql_type(arg_table.schema.properties[i].def,
                arg_table.schema.properties[i].name \in arg_table.primary_keys)

\* C11: reconciling a column that is not in the table executes exactly one
\* ADD COLUMN statement, for that column with the required type, when
\* column addition is allowed; when it is disabled the call raises the
\* unsupported-operation error (NotImplementedError) and executes no
\* statement.  Through prepare_table every ADD carries the mapped type of
\* a property that was missing, and none is executed when addition is
\* disabled.
C11_MissingColumnIsAddedOrRefused ==
    /\ Called("prepare_column") /\ MissingColumn =>
          IF allow_column_add
          THEN /\ result = ReturnedNone
               /\ Len(ddl) = 1
               /\ ddl[1].stmt = "ADD"
               /\ ddl[1].table = arg_table.full_table_name
               /\ Len(ddl[1].columns) = 1
               /\ ddl[1].columns[1].name = arg_table.column_name
               /\ ddl[1].columns[1].type = arg_table.sql_type
          ELSE /\ result = Raised("NotImplementedError")
               /\ ddl = <<>>
               /\ tables = before
    /\ Called("prepare_table") /\ before["t"].exists =>
          /\ ~allow_column_add => StatementsOf("ADD") = {}
          /\ \A i \in StatementsOf("ADD") :
                \E j \in 1..Len(arg_table.schema.properties) :
                    /\ ddl[i].columns[1].name = arg_table.schema.properties[j].name
                    /\ index_of(before["t"].columns, ddl[i].columns[1].name) = 0
                    /\ ddl[i].columns[1].type = MappedType(j).type
          /\ \A i, j \in StatementsOf("ADD") :
                ddl[i].columns[1].name = ddl[j].columns[1].name => i = j

C11_Witness ==
    /\ Called("prepare_column")
    /\ MissingColumn
    /\ allow_column_add
    /\ Len(ddl) = 1
    /\ index_of(tables["t"].columns, arg_table.column_name) # 0

C11_WitnessRefused ==
    /\ Called("prepare_column")
    /\ MissingColumn
    /\ ~allow_column_add
    /\ result = Raised("NotImplementedError")

\* the call changed nothing and raised nothing
NoOp == ddl = <<>> /\ result = ReturnedNone /\ tables = before /\ message = NoMessage

\* C12: reconciling an existing column whose current type, its collation
\* set aside, equals the required type executes no statement and raises
\* no error, whether or not column alteration is allowed.
C12_EqualTypeIsNoOp ==
    /\ Called("prepare_column")
    /\ ExistingColumn
    /\ type_str(CurrentColumn.type) = type_str(arg_table.sql_type)
    => NoOp

C12_Witness ==
    /\ Called("prepare_column")
    /\ ExistingColumn
    /\ CurrentColumn.collation # NoCollation
    /\ CurrentColumn.type = arg_table.sql_type
    /\ ~allow_column_alter
    /\ NoOp

\* the merge of the column's current type with the required type
MergedType == merge_sql_types(<<CurrentColumn.type, arg_table.sql_type>>)

\* C13: reconciling an existing column whose current type differs from the
\* required type but equals the merge of the two executes no statement and
\* raises no error under either alter policy; in particular an unbounded
\* NVARCHAR column reconciled against a required BIGINT is left as it is.
C13_MergeEqualsCurrentIsNoOp ==
    /\ Called("prepare_column") /\ ExistingColumn =>
          /\ /\ type_str(CurrentColumn.type) # type_str(arg_table.sql_type)
             /\ MergedType.kind = "ok"
             /\ type_str(MergedType.type) = type_str(CurrentColumn.type)
             => NoOp
          /\ CurrentColumn.type = NVARCHAR(LengthNone) /\ arg_table.sql_type = BIGINT
             => NoOp

C13_Witness ==
    /\ Called("prepare_column")
    /\ ExistingColumn
    /\ CurrentColumn.type = NVARCHAR(LengthNone)
    /\ arg_table.sql_type = BIGINT
    /\ ~allow_column_alter
    /\ NoOp

\* the merge of the column's current and required types is another type
MergeDiffers ==
    /\ MergedType.kind = "ok"
    /\ type_str(MergedType.type) # type_str(CurrentColumn.type)

\* C14: when the merged type of an existing column differs from its
\* current type and column alteration is disabled, the call raises the
\* unsupported-operation error (NotImplementedError) whose message names
\* the table, the column, the current type and the target type, and no
\* statement is executed; with alteration allowed exactly one ALTER to the
\* merged type is executed.  No operation executes an ALTER while
\* alteration is disabled.
C14_AlterNeedsPermission ==
    /\ Called("prepare_column") /\ ExistingColumn /\ MergeDiffers =>
          IF ~allow_column_alter
          THEN /\ result = Raised("NotImplementedError")
               /\ message.table = arg_table.full_table_name
               /\ message.column = arg_table.column_name
               /\ message.from = type_str(CurrentColumn.type)
               /\ message.to = type_str(MergedType.type)
               /\ ddl = <<>>
               /\ tables = before
          ELSE /\ Len(ddl) = 1
               /\ ddl[1].stmt = "ALTER"
               /\ ddl[1].table = arg_table.full_table_name
               /\ ddl[1].columns[1].name = arg_table.column_name
               /\ ddl[1].columns[1].type = MergedType.type
    /\ ~allow_column_alter => StatementsOf("ALTER") = {}

C14_Witness ==
    /\ Called("prepare_column")
    /\ ExistingColumn
    /\ ~allow_column_alter
    /\ result = Raised("NotImplementedError")
    /\ message.from = BIGINT
    /\ message.to = NVARCHAR(LengthNone)

C14_WitnessAltered ==
    /\ Called("prepare_column")
    /\ ExistingColumn
    /\ allow_column_alter
    /\ StatementsOf("ALTER") # {}
    /\ tables # before

\* the table did not exist when prepare_table was called
CreatesTable == Called("prepare_table") /\ ~before["t"].exists

\* every property of the call's schema maps to a type
EveryPropertyMaps ==
    /\ arg_table.schema.has_properties
    /\ \A i \in 1..Len(arg_table.schema.properties) : MappedType(i).kind = "ok"

\* the schema {id: integer, info: [string, null]} keyed by id
ExampleSchema ==
    TableSchema(TRUE, <<Property("id", integer_def),
                        Property("info", nullable_string_def)>>)

\* C15: reconciling a table that does not exist executes a single CREATE
\* TABLE whose columns are the schema's properties in insertion order,
\* each with the type to_sql_type gives it with is_primary_key = (name in
\* primary_keys), flagged primary key exactly when its name is in
\* primary_keys, and never auto-incrementing; for {id: integer, info:
\* [string, null]} keyed by id the columns are id BIGINT primary key and
\* info unbounded NVARCHAR, nullable.
C15_CreateTableFollowsSchema ==
    CreatesTable /\ EveryPropertyMaps =>
        /\ Len(ddl) = 1
        /\ ddl[1].stmt = "CREATE"
        /\ ddl[1].table = IF arg_table.as_temp_table THEN temp_name("t") ELSE "t"
        /\ Len(ddl[1].columns) = Len(arg_table.schema.properties)
        /\ \A i \in 1..Len(ddl[1].columns) :
              /\ ddl[1].columns[i].name = arg_table.schema.properties[i].name
              /\ ddl[1].columns[i].type = MappedType(i).type
              /\ ddl[1].columns[i].primary_key =
                    (ddl[1].columns[i].name \in arg_table.primary_keys)
              /\ ~ddl[1].columns[i].autoincrement
        /\ column_calls = <<>>
        /\ arg_table.schema = ExampleSchema /\ arg_table.primary_keys = {"id"} =>
              ddl[1].columns =
                  <<[name |-> "id", type |-> BIGINT, collation |-> NoCollation,
                     primary_key |-> TRUE, autoincrement |-> FALSE,
                     nullable |-> FALSE],
                    [name |-> "info", type |-> NVARCHAR(LengthNone),
                     collation |-> NoCollation, primary_key |-> FALSE,
                     autoincrement |-> FALSE, nullable |-> TRUE]>>

C15_Witness ==
    /\ CreatesTable
    /\ arg_table.schema = ExampleSchema
    /\ arg_table.primary_keys = {"id"}
    /\ ~arg_table.as_temp_table
    /\ result = ReturnedNone
    /\ Len(ddl) = 1
    /\ tables["t"].exists
    /\ Len(tables["t"].columns) = 2
    /\ tables["t"].columns[1].primary_key

\* C16: reconciling a table from a schema without a "properties" key raises
\* an error (RuntimeError from create_empty_table when the table does not
\* exist, KeyError from the property loop when it does), creates no table
\* and executes no statement; and no table of the database ever exists
\* with zero columns.
C16_NoPropertiesIsAnError ==
    /\ Called("prepare_table") /\ ~arg_table.schema.has_properties =>
          /\ result = IF before["t"].exists THEN Raised("KeyError")
                      ELSE Raised("RuntimeError")
          /\ ddl = <<>>
          /\ column_calls = <<>>
          /\ tables = before
    /\ \A name \in TableNames : tables[name].exists => tables[name].columns # <<>>

C16_Witness ==
    /\ CreatesTable
    /\ ~arg_table.schema.has_properties
    /\ result = Raised("RuntimeError")
    /\ ~tables["t"].exists
    /\ ~tables[temp_name("t")].exists

C16_WitnessEmptyProperties ==
    /\ CreatesTable
    /\ arg_table.schema = TableSchema(TRUE, <<>>)
    /\ Len(ddl) = 1
    /\ result = Raised("ProgrammingError")

\* prepare_table was called on a table that existed
ReconcilesTable == Called("prepare_table") /\ before["t"].exists

\* the names of the properties of the call's schema, in order
SchemaNames ==
    [i \in 1..Len(arg_table.schema.properties) |-> arg_table.schema.properties[i].name]

IsPrefix(s, t) == Len(s) <= Len(t) /\ \A i \in 1..Len(s) : s[i] = t[i]

\* C17: reconciling an existing table invokes prepare_column for the
\* schema's properties in order, each once, and for every one of them when
\* the call returns; whatever any operation does, every column the table
\* had is still there in its place (the set of column names only grows),
\* and a column the schema does not name is exactly as it was.
C17_ReconcileOnlyTouchesNamedColumns ==
    /\ ReconcilesTable /\ arg_table.schema.has_properties =>
          /\ IsPrefix(column_calls, SchemaNames)
          /\ result = ReturnedNone => column_calls = SchemaNames
          /\ \A i \in 1..Len(before["t"].columns) :
                (\A j \in 1..Len(SchemaNames) :
                    SchemaNames[j] # before["t"].columns[i].name)
                => tables["t"].columns[i] = before["t"].columns[i]
    /\ \A name \in TableNames :
          before[name].exists =>
              /\ tables[name].exists
              /\ Len(tables[name].columns) >= Len(before[name].columns)
              /\ \A i \in 1..Len(before[name].columns) :
                    tables[name].columns[i].name = before[name].columns[i].name

C17_Witness ==
    /\ ReconcilesTable
    /\ result = ReturnedNone
    /\ Len(column_calls) = 2
    /\ index_of(before["t"].columns, LegacyName) # 0
    /\ Len(tables["t"].columns) > Len(before["t"].columns)
    /\ index_of(tables["t"].columns, LegacyName) # 0

\* the name the copy or clone is created under
TargetName ==
    IF arg_table.as_temp_table THEN temp_name(arg_table.full_table_name)
    ELSE arg_table.full_table_name

\* a copy or a clone was asked for under a name that was taken
CopiesOntoExisting ==
    /\ Called("copy_table_structure") \/ Called("clone_table")
    /\ before[TargetName].exists

\* the server refused the one CREATE TABLE the call executed
RefusedByServer ==
    /\ result = Raised("ProgrammingError")
    /\ Len(ddl) = 1
    /\ ddl[1].stmt = "CREATE"
    /\ ddl[1].table = TargetName

\* C18 as stated: copy_table_structure and clone_table into a name that
\* already exists raise the connector's already-exists error
\* (RuntimeError "Table already exists") and leave the table unchanged.
C18_AsStated ==
    CopiesOntoExisting => result = Raised("RuntimeError") /\ tables = before

\* C18: copy_table_structure raises RuntimeError "Table already exists",
\* executing no statement, when the table named full_table_name exists;
\* clone_table makes no such test, and neither does copy_table_structure
\* for the temporary name: they execute the CREATE TABLE and fail with the
\* server's error.  In every case the existing tables are unchanged.
C18_ExistingNameIsRefused ==
    /\ Called("copy_table_structure") /\ before[arg_table.full_table_name].exists =>
          result = Raised("RuntimeError") /\ ddl = <<>> /\ tables = before
    /\ /\ Called("copy_table_structure")
       /\ ~before[arg_table.full_table_name].exists
       /\ before[TargetName].exists
       => RefusedByServer /\ tables = before
    /\ Called("clone_table") /\ before[TargetName].exists =>
          RefusedByServer /\ tables = before

C18_Witness ==
    /\ Called("clone_table")
    /\ before[TargetName].exists
    /\ RefusedByServer
    /\ tables = before

C18_WitnessCopy ==
    /\ Called("copy_table_structure")
    /\ before[TargetName].exists
    /\ result = Raised("RuntimeError")
    /\ tables = before

(***************************************************************************)
(* Properties of the target                                                *)
(***************************************************************************)
\* C19: constructing the target with activate_version set and
\* add_record_metadata not set fails, and a target whose construction
\* failed has processed no message and written no row; with the
\* connection settings given, construction succeeds for the three other
\* combinations of the two flags.
C19_ConstructionChecksTheFlags ==
    target.state # "none" =>
        /\ target.activate_version /\ ~target.add_record_metadata =>
              target.state = "failed"
        /\ target.state = "failed" =>
              /\ processed = 0
              /\ \A key \in RecordKeys : ~rows[key].present
        /\ /\ target.connection_settings
           /\ ~(target.activate_version /\ ~target.add_record_metadata)
           => target.state = "constructed"

C19_Witness ==
    /\ target.state = "failed"
    /\ target.connection_settings
    /\ target.activate_version
    /\ ~target.add_record_metadata

C19_WitnessConstructed ==
    /\ target.state = "constructed"
    /\ ~target.activate_version
    /\ ~target.add_record_metadata
    /\ processed > 0

\* the last message was a version marker applied under the hard-delete policy
HardDeleted ==
    /\ marker # NullVersion
    /\ target.activate_version
    /\ target.hard_delete

\* C20: under the hard-delete policy, after version marker v has been
\* applied no row whose version is older than v remains, every row that
\* carried version v is still there as it was, and when every row the
\* table held was older than v (or had no version) the table is empty.
C20_HardDeleteRemovesTheStale ==
    HardDeleted =>
        /\ \A key \in RowKeys :
              rows[key].present =>
                  ~(rows[key].version # NullVersion /\ rows[key].version < marker)
        /\ \A key \in RowKeys :
              prior_rows[key].present /\ prior_rows[key].version = marker =>
                  rows[key] = prior_rows[key]
        /\ (\A key \in RowKeys :
               prior_rows[key].present =>
                   prior_rows[key].version = NullVersion
                   \/ prior_rows[key].version < marker)
           => rows = NoRows

C20_Witness ==
    /\ HardDeleted
    /\ marker = MaxVersion
    /\ prior_rows["r1"].present /\ prior_rows["r1"].version < marker
    /\ prior_rows["r1"].version # NullVersion
    /\ prior_rows["r2"].present /\ prior_rows["r2"].version = marker
    /\ ~rows["r1"].present
    /\ rows["r2"] = prior_rows["r2"]

C20_WitnessEmptied ==
    /\ HardDeleted
    /\ prior_rows["r1"].present
    /\ prior_rows["r2"].present
    /\ prior_rows["manual"].present
    /\ rows = NoRows

\* the last message was a version marker applied under the soft-delete policy
SoftDeleted ==
    /\ marker # NullVersion
    /\ target.activate_version
    /\ ~target.hard_delete

\* C21: under the soft-delete policy applying a version marker removes no
\* row: the same rows are there before and after, with the same business
\* data and version, and every row whose version is older than the marker
\* has a deletion timestamp afterwards.
C21_SoftDeleteKeepsEveryRow ==
    SoftDeleted =>
        \A key \in RowKeys :
            /\ rows[key].present = prior_rows[key].present
            /\ rows[key].data = prior_rows[key].data
            /\ rows[key].version = prior_rows[key].version
            /\ /\ prior_rows[key].present
               /\ prior_rows[key].version # NullVersion
               /\ prior_rows[key].version < marker
               => rows[key].deleted_at # NullTime

C21_Witness ==
    /\ SoftDeleted
    /\ prior_rows["r1"].present
    /\ prior_rows["r1"].version # NullVersion
    /\ prior_rows["r1"].version < marker
    /\ prior_rows["r1"].deleted_at = NullTime
    /\ rows["r1"].deleted_at # NullTime
    /\ rows["r2"].present
    /\ rows["r2"].version = marker
    /\ rows["r2"].deleted_at = NullTime

\* C22: under the soft-delete policy a row that already carried a deletion
\* timestamp when a marker is applied is not rewritten by it: its
\* deletion timestamp and all its other columns are the same before and
\* after, however many markers have been applied.
C22_TombstonedRowIsNotRewritten ==
    SoftDeleted =>
        \A key \in RowKeys :
            prior_rows[key].present /\ prior_rows[key].deleted_at # NullTime =>
                rows[key] = prior_rows[key]

C22_Witness ==
    /\ SoftDeleted
    /\ prior_rows["r1"].present
    /\ prior_rows["r1"].deleted_at # NullTime
    /\ prior_rows["r1"].deleted_at + 1 < now
    /\ stale(prior_rows["r1"], marker)
    /\ rows["r1"] = prior_rows["r1"]
    /\ rows # prior_rows

\* C23: under the hard-delete policy, applying the same version marker a
\* second time with no write in between deletes no row: the table is as
\* the first application left it.
C23_SecondHardDeleteIsNoOp ==
    HardDeleted /\ prior_marker = marker => rows = prior_rows

C23_Witness ==
    /\ HardDeleted
    /\ prior_marker = marker
    /\ rows = prior_rows
    /\ rows["r1"].present
    /\ ~rows["r2"].present

\* C24: a row inserted out of band without version metadata is removed by
\* the next hard-delete activation, so that after a reload the table holds
\* exactly the rows of the load; a row is removed only when its version
\* metadata is missing or older than the marker, and the rows that stay
\* are untouched.
C24_HardDeleteRemovesUnversionedRows ==
    HardDeleted =>
        \A key \in RowKeys :
            /\ prior_rows[key].present /\ prior_rows[key].version = NullVersion =>
                  ~rows[key].present
            /\ prior_rows[key].present /\ ~rows[key].present =>
                  stale(prior_rows[key], marker)
            /\ rows[key].present =>
                  /\ rows[key] = prior_rows[key]
                  /\ rows[key].version >= marker

C24_Witness ==
    /\ HardDeleted
    /\ prior_rows["manual"].present
    /\ prior_rows["manual"].version = NullVersion
    /\ prior_rows["r1"].present /\ prior_rows["r1"].version = marker
    /\ prior_rows["r2"].present /\ prior_rows["r2"].version = marker
    /\ ~rows["manual"].present
    /\ rows["r1"] = prior_rows["r1"]
    /\ rows["r2"] = prior_rows["r2"]

C24_WitnessKept ==
    /\ HardDeleted
    /\ prior_rows["manual"].present
    /\ prior_rows["manual"].version = marker
    /\ rows["manual"] = prior_rows["manual"]

(***************************************************************************)
(* Properties of the caller's transaction                                  *)
(***************************************************************************)
\* the database after the statements have been executed in order, the
\* server applying those it accepts
RECURSIVE Replay(_, _)
Replay(tbls, statements) ==
    IF statements = <<>> THEN tbls
    ELSE Replay(IF accepts(tbls, Head(statements))
                THEN applied(tbls, Head(statements)) ELSE tbls,
                Tail(statements))

\* C25: prepare_table commits nothing and changes the table only through
\* the statements it executes on the caller's connection, so when a
\* reconciliation fails partway (say a refused alter after an ADD COLUMN)
\* the caller's rollback puts the table back as it was before the
\* reconciliation: it ends fully old, or fully new when the call succeeds
\* and is kept.
C25_RollbackRestoresTheTable ==
    /\ Called("prepare_table") =>
          /\ committed = before
          /\ tables = Replay(before, ddl)
          /\ result = ReturnedNone \/ result.kind = "error"
    /\ pc = "done" /\ op = "rollback" => tables = before /\ committed = before

C25_Witness ==
    /\ pc = "done"
    /\ op = "rollback"
    /\ result = Raised("NotImplementedError")
    /\ Len(ddl) = 1
    /\ ddl[1].stmt = "ADD"
    /\ Len(column_calls) = 2
    /\ tables = before

C25_WitnessPartial ==
    /\ Called("prepare_table")
    /\ result = Raised("NotImplementedError")
    /\ Len(ddl) = 1
    /\ ddl[1].stmt = "ADD"
    /\ tables # before

(***************************************************************************)
(* Properties of the type merge                                            *)
(***************************************************************************)
IntegerTypes == {INTEGER, BIGINT}
StringTypes == {VARCHAR, NVARCHAR(LengthNone)}

\* C26: merge_sql_types, called on [current, required], returns the
\* integer type for [integer, date-time] and NOTYPE for [NOTYPE, integer],
\* and returns the string type for [integer, string], [boolean, string]
\* and [NOTYPE, string].
C26_MergeFollowsTheTypeHierarchy ==
    Called("merge_sql_types") =>
        /\ arg_types[1] \in IntegerTypes /\ arg_types[2] = DATETIME =>
              result = Returned(arg_types[1])
        /\ arg_types[1] = NOTYPE /\ arg_types[2] \in IntegerTypes =>
              result = Returned(NOTYPE)
        /\ /\ arg_types[1] \in IntegerTypes \cup {SA_BOOLEAN, NOTYPE}
           /\ arg_types[2] \in StringTypes
           => result = Returned(arg_types[2])

C26_Witness ==
    /\ Called("merge_sql_types")
    /\ arg_types = <<NOTYPE, INTEGER>>
    /\ result = Returned(NOTYPE)

C26_WitnessString ==
    /\ Called("merge_sql_types")
    /\ arg_types = <<SA_BOOLEAN, VARCHAR>>
    /\ result = Returned(VARCHAR)

(***************************************************************************)
(* Properties of the primary-key length rule                               *)
(***************************************************************************)
\* a type the server stores as character data
StringLike(sql_type) == has_collation(reflected(Column("", sql_type, FALSE)).type)

BoundedKeys(columns) ==
    \A i \in 1..Len(columns) :
        columns[i].primary_key /\ StringLike(columns[i].type) =>
            columns[i].type.length = PrimaryKeyLength

\* C27: after any sequence of table reconciliations, every primary-key
\* column whose SQL type is string-like is bounded in length (450), whatever
\* the key property declares: no type information, a union, an object or
\* an array.
C27_StringKeysAreBounded ==
    \A i \in 1..Len(ddl) :
        ddl[i].stmt = "CREATE" => BoundedKeys(ddl[i].columns)

(***************************************************************************)
(* Properties of column names that differ in case only                     *)
(***************************************************************************)
\* the names of the columns added by the statements before the i-th
RECURSIVE AddedBefore(_)
AddedBefore(i) ==
    IF i <= 1 THEN <<>>
    ELSE IF ddl[i - 1].stmt = "ADD" THEN AddedBefore(i - 1) \o ddl[i - 1].columns
    ELSE AddedBefore(i - 1)

\* the i-th statement asks for a column the table has under another case
SecondColumn(i) ==
    \/ ddl[i].stmt = "CREATE" /\ ~distinct_names(ddl[i].columns)
    \/ /\ ddl[i].stmt = "ADD"
       /\ has_column(before[ddl[i].table].columns \o AddedBefore(i),
                     ddl[i].columns[1].name)

\* C28: after any sequence of create and reconcile operations the column
\* names of a table are unique under case-insensitive comparison, and a
\* property whose name differs only in case from an existing column, or
\* from another property of the schema, leads to no second column and to
\* no ADD COLUMN.
C28_CaseVariantIsTheSameColumn ==
    /\ \A name \in TableNames : distinct_names(tables[name].columns)
    /\ \A i \in 1..Len(ddl) : ~SecondColumn(i)

(***************************************************************************)
(* Properties of a repeated schema                                         *)
(***************************************************************************)
\* C29: after prepare_table has succeeded for a schema and primary keys,
\* calling it again with the same schema and primary keys executes no DDL
\* statement and raises no error.
C29_AsStated ==
    Called("prepare_table_again") => ddl = <<>> /\ result.kind # "error"

\* C29, amended: the second call executes no DDL statement and raises no
\* error when the table the call names is the one it creates or reconciles.
C29_SecondReconciliationIsNoOp ==
    Called("prepare_table_again") /\ ~arg_table.as_temp_table =>
        /\ ddl = <<>>
        /\ result.kind # "error"
        /\ tables = before

\* a table with a JSON column, as it reads back, is reconciled again with
\* column alteration disabled
C29_Witness ==
    /\ Called("prepare_table_again")
    /\ ~arg_table.as_temp_table
    /\ ~allow_column_alter
    /\ arg_table.schema =
          TableSchema(TRUE, <<Property("info", Schema(TagStr("object"), Absent,
                                                      Absent, <<>>))>>)
    /\ tables["t"].columns =
          <<reflected(Column("info", NVARCHAR(LengthNone), FALSE))>>

\* the temporary twin exists after the first call, and the second call
\* tries to create it again
C29_WitnessTemporary ==
    /\ Called("prepare_table_again")
    /\ arg_table.as_temp_table
    /\ result = Raised("ProgrammingError")
    /\ Len(ddl) = 1
    /\ ddl[1].stmt = "CREATE"

(***************************************************************************)
(* Properties of binding to a binary-from-hex column                       *)
(***************************************************************************)
\* the string without one leading "0x" or "\x"
Stripped(chars) ==
    IF Len(chars) >= 2 /\ chars[2] = "x" /\ chars[1] \in {"0", "\\"}
    THEN [i \in 1..(Len(chars) - 2) |-> chars[i + 2]]
    ELSE chars

Padded(chars) == IF Len(chars) % 2 = 1 THEN <<"0">> \o chars ELSE chars

HexDigits ==
    {"0", "1", "2", "3", "4", "5", "6", "7", "8", "9",
     "a", "b", "c", "d", "e", "f", "A", "B", "C", "D", "E", "F"}

\* the value of a digit, whatever its case
DigitValue(c) ==
    CASE c \in {"a", "A"} -> 10 [] c \in {"b", "B"} -> 11 [] c \in {"c", "C"} -> 12
      [] c \in {"d", "D"} -> 13 [] c \in {"e", "E"} -> 14 [] c \in {"f", "F"} -> 15
      [] c = "0" -> 0 [] c = "1" -> 1 [] c = "2" -> 2 [] c = "3" -> 3 [] c = "4" -> 4
      [] c = "5" -> 5 [] c = "6" -> 6 [] c = "7" -> 7 [] c = "8" -> 8 [] c = "9" -> 9

\* the bytes an even number of digits stands for
Decoded(chars) ==
    [i \in 1..(Len(chars) \div 2) |->
        16 * DigitValue(chars[2 * i - 1]) + DigitValue(chars[2 * i])]

\* C30: binding to a binary-from-hex column keeps None; strips one leading
\* "0x" or "\x" from a string, pads it with one "0" to even length and
\* decodes it as hexadecimal whatever the case of the digits ("" and "0x"
\* give no bytes, "A12" gives 0A 12); raises ValueError for a string that
\* is not hexadecimal and TypeError for a value that is neither a string
\* nor bytes-like; and passes bytes-like values through.
C30_BindDecodesHex ==
    Called("process_bind_param") =>
        LET chars == Padded(Stripped(value.chars))
        IN /\ value = NoneValue => bound = Bound(NoneValue)
           /\ value.kind = "str" =>
                 /\ (\A i \in 1..Len(chars) : chars[i] \in HexDigits) =>
                        bound = Bound(Bytes(Decoded(chars)))
                 /\ (\E i \in 1..Len(chars) : chars[i] \notin HexDigits \cup {" "}) =>
                        bound = BindRaised("ValueError")
                 /\ bound.kind = "ok" => bound.value.kind = "bytes"
                 /\ bound.kind # "ok" => bound = BindRaised("ValueError")
           /\ value \in {Str(<<>>), Str(<<"0", "x">>)} => bound = Bound(Bytes(<<>>))
           /\ value = Str(<<"A", "1", "2">>) => bound = Bound(Bytes(<<10, 18>>))
           /\ value.kind \notin BytesLike \cup {"str", "None"} =>
                 bound = BindRaised("TypeError")
           /\ value.kind \in BytesLike => bound = Bound(value)

C30_Witness ==
    /\ Called("process_bind_param")
    /\ value = Str(<<"A", "1", "2">>)
    /\ bound = Bound(Bytes(<<10, 18>>))

C30_WitnessPrefix ==
    /\ Called("process_bind_param")
    /\ value = Str(<<"\\", "x", "a", "A">>)
    /\ bound = Bound(Bytes(<<170>>))

C30_WitnessInvalid ==
    /\ Called("process_bind_param")
    /\ value = Str(<<"0", "x", "0", "x">>)
    /\ bound = BindRaised("ValueError")

\* whitespace between bytes is skipped by the decoder
C30_WitnessWhitespace ==
    /\ Called("process_bind_param")
    /\ value = Str(<<"1", "2", " ", " ">>)
    /\ bound = Bound(Bytes(<<18>>))

====
